---- MODULE Spec2Model ----
(***************************************************************************)
(* A model of the fraud-scoring repository: the FeedbackSystem (feedback   *)
(* history, pending reviews, reviewer workload, update queue and its       *)
(* periodic drain), the scoring routes with the BiometricsProcessor, and   *)
(* the GraphBuilder.                                                       *)
(*                                                                         *)
(* Units.  Times are in seconds (the source counts milliseconds: 30000 ms  *)
(* is 30).  Probabilities, confidences and the active-learning scores are  *)
(* in thousandths (0.7 is 700).  The model-performance metrics are in      *)
(* ten-thousandths (0.92 is 9200).                                         *)
(***************************************************************************)
EXTENDS Integers, Sequences, FiniteSets, TLC

VARIABLES
  now,               \* Date.now(), in seconds since the FeedbackSystem was constructed
  feedbackHistory,   \* FeedbackSystem.feedbackHistory: Map, as its entries in insertion order
  pendingReviews,    \* FeedbackSystem.pendingReviews: Map, as its entries in insertion order
  modelPerformance,  \* FeedbackSystem.modelPerformance
  updateQueue,       \* FeedbackSystem.updateQueue
  reviewerWorkload,  \* FeedbackSystem.reviewerWorkload: Map, as its entries in insertion order
  nextTick,          \* expiry of the setInterval timer of startPeriodicUpdates
  drains,            \* the processUpdateQueue calls in flight: snapshot left and expiry of the running execution
  updateObjects,     \* the ModelUpdateRequest objects ever created, by identity (updateQueue and the drains' snapshots refer to them)
  drainsStarted,     \* number of processUpdateQueue calls that found a ready update
  ret,               \* what the last FeedbackSystem call returned or threw
  calls,             \* number of FeedbackSystem API calls made
  failures,          \* number of failed executions
  applied,           \* per update id: times updateModelPerformanceFromFeedback ran for it
  execLog,           \* the executions that ended: update id, drain, start, end, outcome, the update's scheduledTime at start and end
  graphInput,        \* the transactions last handed to GraphBuilder.buildTransactionGraph
  graphResult,       \* what it returned: nodes and edges, in emission order
  permutedResult,    \* what it returned for a reordering of the same transactions
  singleProcessor,   \* the BiometricsProcessor singleton of the single-transaction route
  batchProcessor,    \* the BiometricsProcessor singleton of the batch route
  scoreCalls,        \* number of scoring requests served
  scoreLog,          \* the single-transaction requests served: inputs, draws, wall-clock hour, response
  lastBatch,         \* the last batch request: the processor it found, inputs, draws, hour, response
  inFlight           \* the POST calls of the single-transaction route, by arrival: inputs, position, and what their processBiometricData call found, left and returned

fsVars == <<now, feedbackHistory, pendingReviews, modelPerformance, updateQueue,
            reviewerWorkload, nextTick, drains, updateObjects, drainsStarted, ret,
            calls, failures, applied, execLog>>

graphVars == <<graphInput, graphResult, permutedResult>>

scoreVars == <<singleProcessor, batchProcessor, scoreCalls, scoreLog, lastBatch, inFlight>>

vars == <<fsVars, graphVars, scoreVars>>

(***************************************************************************)
(* Bounds of the model.                                                    *)
(***************************************************************************)
MaxCalls == 3
MaxTime == 64
MaxFailures == 1
MaxGraphTxs == 3
MaxScoreCalls == 2
MaxRequests == 2
MaxDelayTime == 340

(***************************************************************************)
(* Program constants (seconds).                                            *)
(***************************************************************************)
TickInterval == 30
ExecDuration == 2
MediumDelay == 300
LowDelay == 1800
RetryDelay == 600
RecentWindow == 3600
ReviewCapacity == 10
BatchUpdateSize == 5
RecentFeedbackTrigger == 10

Undefined == "undefined"
\* An absent object (a sub-object of a request body that was not sent).
Missing == <<>>

Min(a, b) == IF a < b THEN a ELSE b
Max(a, b) == IF a > b THEN a ELSE b
Abs(a) == IF a < 0 THEN -a ELSE a

(***************************************************************************)
(* JavaScript Map, as the sequence of its entries [key, value] in insertion *)
(* order: set() on a present key keeps its place, delete() closes the gap.  *)
(***************************************************************************)
MapKeys(m) == {m[i].key : i \in 1..Len(m)}
MapHas(m, k) == \E i \in 1..Len(m) : m[i].key = k
MapGet(m, k) == m[CHOOSE i \in 1..Len(m) : m[i].key = k].value
\* A set() that keeps the value of a present key.
setIfAbsent(m, k, v) == IF MapHas(m, k) THEN m ELSE Append(m, [key |-> k, value |-> v])

MapSet(m, k, v) ==
  IF MapHas(m, k)
    THEN [i \in 1..Len(m) |-> IF m[i].key = k THEN [key |-> k, value |-> v] ELSE m[i]]
    ELSE Append(m, [key |-> k, value |-> v])
MapDelete(m, k) == SelectSeq(m, LAMBDA e : e.key # k)
MapValues(m) == [i \in 1..Len(m) |-> m[i].value]

(***************************************************************************)
(* Array.prototype.sort with a comparator b.k - a.k: stable, descending.   *)
(* Elements are [k, v] pairs.                                              *)
(***************************************************************************)
RECURSIVE InsertDesc(_, _)
InsertDesc(sorted, e) ==
  IF sorted = <<>> THEN <<e>>
  ELSE IF Head(sorted).k >= e.k THEN <<Head(sorted)>> \o InsertDesc(Tail(sorted), e)
  ELSE <<e>> \o sorted

\* An array left in the order of its pushes.
keepOrder(s) == s

RECURSIVE StableSortDesc(_)
StableSortDesc(s) ==
  IF s = <<>> THEN <<>>
  ELSE InsertDesc(StableSortDesc(SubSeq(s, 1, Len(s) - 1)), s[Len(s)])

priorityOrder(p) == CASE p = "high" -> 3 [] p = "medium" -> 2 [] OTHER -> 1

Unsorted(q, objs) == q

SortQueue(q, objs) ==
  LET keyed == [i \in 1..Len(q) |-> [k |-> priorityOrder(objs[q[i]].priority), v |-> q[i]]]
      sorted == StableSortDesc(keyed)
  IN [i \in 1..Len(sorted) |-> sorted[i].v]

(***************************************************************************)
(* FeedbackSystem.  The operations are written over the record s of the    *)
(* fields they touch: feedbackHistory, pendingReviews, reviewerWorkload,   *)
(* updateQueue (references) and updateObjects (the objects referred to).   *)
(***************************************************************************)
FS == [feedbackHistory |-> feedbackHistory, pendingReviews |-> pendingReviews,
       reviewerWorkload |-> reviewerWorkload, updateQueue |-> updateQueue,
       updateObjects |-> updateObjects]

Falsy(x) == x \in {Undefined, ""}

initializeReviewers ==
  LET reviewers == <<"analyst_001", "analyst_002", "analyst_003", "senior_analyst_001", "ml_engineer_001">>
  IN [i \in 1..Len(reviewers) |-> [key |-> reviewers[i], value |-> 0]]

initialModelPerformance ==
  [accuracy |-> 9200, precision |-> 8900, recall |-> 9400, f1Score |-> 9100,
   falsePositiveRate |-> 800, falseNegativeRate |-> 600, auc |-> 9600,
   lastUpdated |-> 0, sampleSize |-> 1000]

\* A queue that schedules every request at once.
noDelay(priority) == 0

scheduleDelay(priority) ==
  CASE priority = "high" -> 0 [] priority = "medium" -> MediumDelay [] OTHER -> LowDelay

queueModelUpdate(s, feedbackBatch, updateType, priority, t) ==
  LET updateRequest == [feedbackBatch |-> feedbackBatch, updateType |-> updateType,
                        priority |-> priority, scheduledTime |-> t + scheduleDelay(priority)]
      objs == Append(s.updateObjects, updateRequest)
  IN [s EXCEPT !.updateObjects = objs,
               !.updateQueue = SortQueue(Append(s.updateQueue, Len(objs)), objs)]

\* The trigger with the confidence threshold included.
triggerAtThreshold(history, feedback, t) ==
  \/ feedback.confidence >= 900 /\ feedback.evidenceType = "bank_confirmation"
  \/ Cardinality({i \in 1..Len(history) : t - history[i].value.reviewTimestamp < RecentWindow})
       >= RecentFeedbackTrigger

shouldTriggerImmediateUpdate(history, feedback, t) ==
  \/ feedback.confidence > 900 /\ feedback.evidenceType = "bank_confirmation"
  \/ Cardinality({i \in 1..Len(history) : t - history[i].value.reviewTimestamp < RecentWindow})
       >= RecentFeedbackTrigger

missingIdOrLabel(feedback) ==
  Falsy(feedback.transactionId) \/ Falsy(feedback.actualLabel)

missingRequiredFields(feedback) ==
  Falsy(feedback.transactionId) \/ Falsy(feedback.actualLabel) \/ Falsy(feedback.reviewerId)

keepPending(pending, transactionId) == pending

removeFromPending(pending, transactionId) == MapDelete(pending, transactionId)

\* A submitFeedback that counts a reviewer's work once per transaction.
submitCountingOnce(s, feedback, t) ==
  IF missingRequiredFields(feedback)
    THEN [s |-> s, error |-> "Invalid feedback data: missing required fields"]
    ELSE
      LET history == MapSet(s.feedbackHistory, feedback.transactionId, feedback)
          pending == removeFromPending(s.pendingReviews, feedback.transactionId)
          currentWorkload == IF MapHas(s.reviewerWorkload, feedback.reviewerId)
                               THEN MapGet(s.reviewerWorkload, feedback.reviewerId) ELSE 0
          workload == IF MapHas(s.feedbackHistory, feedback.transactionId)
                        THEN s.reviewerWorkload
                        ELSE MapSet(s.reviewerWorkload, feedback.reviewerId, currentWorkload + 1)
          s1 == [s EXCEPT !.feedbackHistory = history, !.pendingReviews = pending,
                          !.reviewerWorkload = workload]
      IN [s |-> IF shouldTriggerImmediateUpdate(history, feedback, t)
                  THEN queueModelUpdate(s1, <<feedback>>, "incremental", "high", t)
                  ELSE s1,
          error |-> "none"]

submitFeedback(s, feedback, t) ==
  IF missingRequiredFields(feedback)
    THEN [s |-> s, error |-> "Invalid feedback data: missing required fields"]
    ELSE
      LET history == MapSet(s.feedbackHistory, feedback.transactionId, feedback)
          pending == removeFromPending(s.pendingReviews, feedback.transactionId)
          currentWorkload == IF MapHas(s.reviewerWorkload, feedback.reviewerId)
                               THEN MapGet(s.reviewerWorkload, feedback.reviewerId) ELSE 0
          workload == MapSet(s.reviewerWorkload, feedback.reviewerId, currentWorkload + 1)
          s1 == [s EXCEPT !.feedbackHistory = history, !.pendingReviews = pending,
                          !.reviewerWorkload = workload]
      IN [s |-> IF shouldTriggerImmediateUpdate(history, feedback, t)
                  THEN queueModelUpdate(s1, <<feedback>>, "incremental", "high", t)
                  ELSE s1,
          error |-> "none"]

RECURSIVE submitEach(_, _, _, _)
submitEach(s, feedbackBatch, i, t) ==
  IF i > Len(feedbackBatch) THEN [s |-> s, error |-> "none"]
  ELSE LET r == submitFeedback(s, feedbackBatch[i], t)
       IN IF r.error # "none" THEN r ELSE submitEach(r.s, feedbackBatch, i + 1, t)

\* A batch call that queues its update whatever the size of the batch.
queueEveryBatch(s, feedbackBatch, t) ==
  LET r == submitEach(s, feedbackBatch, 1, t)
  IN IF r.error # "none" THEN r
     ELSE [s |-> queueModelUpdate(r.s, feedbackBatch, "incremental", "medium", t), error |-> "none"]

submitBatchFeedback(s, feedbackBatch, t) ==
  LET r == submitEach(s, feedbackBatch, 1, t)
  IN IF r.error # "none" THEN r
     ELSE IF Len(feedbackBatch) >= BatchUpdateSize
       THEN [s |-> queueModelUpdate(r.s, feedbackBatch, "incremental", "medium", t), error |-> "none"]
       ELSE r

(***************************************************************************)
(* Active learning.  A prediction is [transactionId, fraudProbability,     *)
(* riskLevel, explanation (its length), biometricAnomalies, confidence]; a *)
(* transaction is a TransactionData, its timestamp given by getHours().    *)
(***************************************************************************)
calculateUncertaintyScore(prediction) ==
  LET distanceFromMiddle == Abs(prediction.fraudProbability - 500)
      uncertaintyScore == 1000 - distanceFromMiddle * 2
      confidenceUncertainty == 1000 - prediction.confidence
  IN Max(uncertaintyScore, confidenceUncertainty)

calculateDiversityScore(history, transaction) ==
  LET recentTransactions == Min(Len(history), 100)
      hour == transaction.timestamp
      isUnusualTime == hour < 6 \/ hour > 22
      isHighAmount == transaction.amount > 1000
      isUnusualMerchant == transaction.merchant.category = "atm"
  IN IF recentTransactions < 10 THEN 800
     ELSE Min(1000, 300 + (IF isUnusualTime THEN 200 ELSE 0)
                        + (IF isHighAmount THEN 300 ELSE 0)
                        + (IF isUnusualMerchant THEN 200 ELSE 0))

calculateImportanceScore(transaction, prediction) ==
  Min(1000,
      (IF transaction.amount > 5000 THEN 400 ELSE IF transaction.amount > 1000 THEN 200 ELSE 0)
    + (IF prediction.riskLevel = "high" THEN 300
       ELSE IF prediction.riskLevel = "medium" THEN 100 ELSE 0)
    + (IF prediction.explanation > 2 THEN 200 ELSE 0)
    + (IF transaction.merchant.category \in {"bank", "atm", "financial"} THEN 100 ELSE 0))

generateQueryReasons(prediction, transaction, uncertaintyScore, diversityScore) ==
    (IF uncertaintyScore > 700 THEN <<"Model uncertainty: prediction confidence is low">> ELSE <<>>)
 \o (IF Abs(prediction.fraudProbability - 500) < 100
       THEN <<"Borderline case: fraud probability near decision threshold">> ELSE <<>>)
 \o (IF diversityScore > 600 THEN <<"Novel transaction pattern: different from training data">> ELSE <<>>)
 \o (IF transaction.amount > 5000 THEN <<"High-value transaction: requires manual verification">> ELSE <<>>)
 \o (IF prediction.explanation > 3 THEN <<"Complex case: multiple risk factors identified">> ELSE <<>>)
 \o (IF prediction.biometricAnomalies > 2
       THEN <<"Behavioral anomalies: unusual user interaction patterns">> ELSE <<>>)

\* [...new Set(reviewers)]: the first occurrence of each element, in order.
RECURSIVE Dedupe(_)
Dedupe(r) ==
  IF r = <<>> THEN <<>>
  ELSE LET init == Dedupe(SubSeq(r, 1, Len(r) - 1))
       IN IF \E i \in 1..Len(init) : init[i] = r[Len(r)] THEN init ELSE Append(init, r[Len(r)])

\* A suggestion that takes the first two reviewers of the workload map.
suggestFirstTwo(workload, prediction, transaction) ==
  Dedupe(
       (IF prediction.riskLevel = "high" \/ transaction.amount > 10000
          THEN <<"senior_analyst_001">> ELSE <<>>)
    \o (IF prediction.biometricAnomalies > 2 THEN <<"ml_engineer_001">> ELSE <<>>)
    \o [i \in 1..Min(2, Len(workload)) |-> workload[i].key])

suggestReviewers(workload, prediction, transaction) ==
  LET keyed == [i \in 1..Len(workload) |-> [k |-> -workload[i].value, v |-> workload[i].key]]
      sortedReviewers == StableSortDesc(keyed)
      lowest == [i \in 1..Min(2, Len(sortedReviewers)) |-> sortedReviewers[i].v]
  IN Dedupe(
         (IF prediction.riskLevel = "high" \/ transaction.amount > 10000
            THEN <<"senior_analyst_001">> ELSE <<>>)
      \o (IF prediction.biometricAnomalies > 2 THEN <<"ml_engineer_001">> ELSE <<>>)
      \o lowest)

hasFeedback(history, transactionId) == MapHas(history, transactionId)

combinedScore(q) == q.uncertaintyScore * 4 + q.diversityScore * 3 + q.importanceScore * 3

\* The loop of identifyUncertainTransactions from index i on: the queries pushed
\* and the pendingReviews map after it.
RECURSIVE identifyLoop(_, _, _, _, _)
identifyLoop(s, predictions, transactions, i, acc) ==
  IF i > Len(predictions) THEN acc
  ELSE
    LET prediction == predictions[i]
        transaction == transactions[i]
        uncertaintyScore == calculateUncertaintyScore(prediction)
        diversityScore == calculateDiversityScore(s.feedbackHistory, transaction)
        importanceScore == calculateImportanceScore(transaction, prediction)
        query == [transactionId |-> prediction.transactionId,
                  uncertaintyScore |-> uncertaintyScore,
                  diversityScore |-> diversityScore,
                  importanceScore |-> importanceScore,
                  queryReason |-> generateQueryReasons(prediction, transaction,
                                                       uncertaintyScore, diversityScore),
                  suggestedReviewers |-> suggestReviewers(s.reviewerWorkload, prediction, transaction)]
    IN IF hasFeedback(s.feedbackHistory, prediction.transactionId)
         THEN identifyLoop(s, predictions, transactions, i + 1, acc)
       ELSE IF combinedScore(query) > 6000
         THEN identifyLoop(s, predictions, transactions, i + 1,
                [queries |-> Append(acc.queries, query),
                 pending |-> MapSet(acc.pending, prediction.transactionId, query)])
       ELSE identifyLoop(s, predictions, transactions, i + 1, acc)

identifyUncertainTransactions(s, predictions, transactions) ==
  LET r == identifyLoop(s, predictions, transactions, 1,
                        [queries |-> <<>>, pending |-> s.pendingReviews])
      keyed == [i \in 1..Len(r.queries) |-> [k |-> combinedScore(r.queries[i]), v |-> r.queries[i]]]
      sorted == StableSortDesc(keyed)
  IN [s |-> [s EXCEPT !.pendingReviews = r.pending],
      sorted |-> [i \in 1..Len(sorted) |-> sorted[i].v],
      queries |-> [i \in 1..Min(ReviewCapacity, Len(sorted)) |-> sorted[i].v]]

\* getPendingReviews: the pending queries, highest combined score first.
getPendingReviews(pending) ==
  LET values == MapValues(pending)
      keyed == [i \in 1..Len(values) |-> [k |-> combinedScore(values[i]), v |-> values[i]]]
      sorted == StableSortDesc(keyed)
  IN [i \in 1..Len(sorted) |-> sorted[i].v]

(***************************************************************************)
(* Model performance (ten-thousandths).                                    *)
(***************************************************************************)
harmonicMean(precision, recall) == (2 * precision * recall) \div (precision + recall)

\* getModelPerformance: { ...this.modelPerformance }, a copy field by field.
getModelPerformance(perf) == [field \in DOMAIN perf |-> perf[field]]

\* An improvement that is not clipped.
improveUnclipped(perf, batchLength, t) ==
  LET improvementFactor == Min(200, batchLength * 10)
      precision == perf.precision + (improvementFactor * 8) \div 10
      recall == perf.recall + (improvementFactor * 12) \div 10
  IN [perf EXCEPT !.accuracy = perf.accuracy + improvementFactor,
                  !.precision = precision, !.recall = recall,
                  !.f1Score = harmonicMean(precision, recall),
                  !.lastUpdated = t,
                  !.sampleSize = perf.sampleSize + batchLength]

updateModelPerformanceFromFeedback(perf, batchLength, t) ==
  LET improvementFactor == Min(200, batchLength * 10)
      accuracy == Min(9900, perf.accuracy + improvementFactor)
      precision == Min(9900, perf.precision + (improvementFactor * 8) \div 10)
      recall == Min(9900, perf.recall + (improvementFactor * 12) \div 10)
  IN [perf EXCEPT !.accuracy = accuracy, !.precision = precision, !.recall = recall,
                  !.f1Score = harmonicMean(precision, recall),
                  !.lastUpdated = t,
                  !.sampleSize = perf.sampleSize + batchLength]

updateModelPerformance(perf, randomVariation) ==
  LET accuracy == Max(8500, Min(9900, perf.accuracy + randomVariation))
      precision == Max(8000, Min(9900, perf.precision + randomVariation))
      recall == Max(8500, Min(9900, perf.recall + randomVariation))
  IN [perf EXCEPT !.accuracy = accuracy, !.precision = precision, !.recall = recall,
                  !.f1Score = harmonicMean(precision, recall),
                  !.falsePositiveRate = 10000 - precision,
                  !.falseNegativeRate = 10000 - recall]

(***************************************************************************)
(* The periodic drain.  processUpdateQueue snapshots the ready updates and *)
(* executes them one after another; each execution awaits a 2 s timer, so  *)
(* the calls of the FeedbackSystem, later ticks and other drains run in    *)
(* between.  A drain in flight is [no, readyUpdates (the snapshot from the *)
(* running execution on), finishAt (expiry of that execution's timer)].    *)
(***************************************************************************)
\* A snapshot without the updates that became due since the tick before.
readyOneTickAgo(queue, objs, t) ==
  SelectSeq(queue, LAMBDA u : objs[u].scheduledTime <= t - TickInterval)

readyUpdates(queue, objs, t) == SelectSeq(queue, LAMBDA u : objs[u].scheduledTime <= t)

keepSnapshot(queue, update, snapshot) == snapshot

removeExecuted(queue, update, snapshot) == SelectSeq(queue, LAMBDA u : u # update)

reschedule(objs, update, t) == [objs EXCEPT ![update].scheduledTime = t + RetryDelay]

Pad(counts, n) == [i \in 1..n |-> IF i <= Len(counts) THEN counts[i] ELSE 0]

\* A drain starting the execution of the head of its snapshot at time t.
running(no, snapshot, objs, t) ==
  [no |-> no, readyUpdates |-> snapshot, finishAt |-> t + ExecDuration,
   scheduledAtStart |-> objs[Head(snapshot)].scheduledTime]

executed(dr, objs, ok, t) ==
  [id |-> Head(dr.readyUpdates), drain |-> dr.no, start |-> dr.finishAt - ExecDuration,
   end |-> t, ok |-> ok, scheduledAtStart |-> dr.scheduledAtStart,
   scheduledAtEnd |-> objs[Head(dr.readyUpdates)].scheduledTime]

SetFS(s) ==
  /\ feedbackHistory' = s.feedbackHistory
  /\ pendingReviews' = s.pendingReviews
  /\ reviewerWorkload' = s.reviewerWorkload
  /\ updateQueue' = s.updateQueue
  /\ updateObjects' = s.updateObjects
  /\ applied' = Pad(applied, Len(s.updateObjects))

\* The module-level `let biometricsProcessor = null` of a scoring route.
notLoaded == [loaded |-> FALSE, userProfiles |-> <<>>, sessionData |-> <<>>]

Init ==
  /\ now = 0
  /\ feedbackHistory = <<>>
  /\ pendingReviews = <<>>
  /\ modelPerformance = initialModelPerformance
  /\ updateQueue = <<>>
  /\ reviewerWorkload = initializeReviewers
  /\ nextTick = TickInterval
  /\ drains = <<>>
  /\ updateObjects = <<>>
  /\ drainsStarted = 0
  /\ ret = [op |-> "none", arg |-> <<>>, error |-> "none", queries |-> <<>>, sorted |-> <<>>]
  /\ calls = 0
  /\ failures = 0
  /\ applied = <<>>
  /\ execLog = {}
  /\ graphInput = <<>>
  /\ graphResult = [nodes |-> <<>>, edges |-> <<>>]
  /\ permutedResult = [nodes |-> <<>>, edges |-> <<>>]
  /\ singleProcessor = notLoaded
  /\ batchProcessor = notLoaded
  /\ scoreCalls = 0
  /\ scoreLog = {}
  /\ lastBatch = [pre |-> notLoaded, body |-> [items |-> <<>>, recentTransactions |-> <<>>],
                  draw |-> [noise |-> 0, confidence |-> 700], hour |-> 0,
                  response |-> [status |-> 0]]
  /\ inFlight = <<>>

SubmitFeedback(feedback) ==
  /\ calls < MaxCalls
  /\ LET r == submitFeedback(FS, feedback, now)
     IN /\ SetFS(r.s)
        /\ ret' = [op |-> "submitFeedback", arg |-> feedback, error |-> r.error,
                   queries |-> <<>>, sorted |-> <<>>]
  /\ calls' = calls + 1
  /\ UNCHANGED <<now, modelPerformance, nextTick, drains, drainsStarted, failures, execLog>>
  /\ UNCHANGED <<graphVars, scoreVars>>

SubmitBatchFeedback(feedbackBatch) ==
  /\ calls < MaxCalls
  /\ LET r == submitBatchFeedback(FS, feedbackBatch, now)
     IN /\ SetFS(r.s)
        /\ ret' = [op |-> "submitBatchFeedback", arg |-> feedbackBatch, error |-> r.error,
                   queries |-> <<>>, sorted |-> <<>>]
  /\ calls' = calls + 1
  /\ UNCHANGED <<now, modelPerformance, nextTick, drains, drainsStarted, failures, execLog>>
  /\ UNCHANGED <<graphVars, scoreVars>>

IdentifyUncertain(in) ==
  /\ calls < MaxCalls
  /\ LET r == identifyUncertainTransactions(FS, in.predictions, in.transactions)
     IN /\ SetFS(r.s)
        /\ ret' = [op |-> "identifyUncertain", arg |-> in, error |-> "none",
                   queries |-> r.queries, sorted |-> r.sorted]
  /\ calls' = calls + 1
  /\ UNCHANGED <<now, modelPerformance, nextTick, drains, drainsStarted, failures, execLog>>
  /\ UNCHANGED <<graphVars, scoreVars>>

\* The setInterval callback: processUpdateQueue() up to its first await, then
\* updateModelPerformance().
Tick(randomVariation) ==
  /\ now = nextTick
  /\ LET ready == readyUpdates(updateQueue, updateObjects, now)
     IN IF ready = <<>>
          THEN UNCHANGED <<drains, drainsStarted>>
          ELSE /\ drains' = Append(drains, running(drainsStarted + 1, ready, updateObjects, now))
               /\ drainsStarted' = drainsStarted + 1
  /\ modelPerformance' = updateModelPerformance(modelPerformance, randomVariation)
  /\ nextTick' = nextTick + TickInterval
  /\ UNCHANGED <<now, feedbackHistory, pendingReviews, updateQueue, reviewerWorkload,
                 updateObjects, ret, calls, failures, applied, execLog>>
  /\ UNCHANGED <<graphVars, scoreVars>>

\* The timer of the running execution of drain d expires: executeModelUpdate
\* completes (ok) or throws, and the loop goes on to the next ready update.
ExecFinish(d, ok) ==
  /\ d \in 1..Len(drains)
  /\ drains[d].finishAt = now
  /\ ~ok => failures < MaxFailures
  /\ LET dr == drains[d]
         update == Head(dr.readyUpdates)
         rest == Tail(dr.readyUpdates)
         objs == IF ok THEN updateObjects ELSE reschedule(updateObjects, update, now)
     IN /\ modelPerformance' =
             IF ok THEN updateModelPerformanceFromFeedback(modelPerformance,
                           Len(updateObjects[update].feedbackBatch), now)
             ELSE modelPerformance
        /\ updateQueue' = IF ok THEN removeExecuted(updateQueue, update, rest) ELSE updateQueue
        /\ updateObjects' = objs
        /\ applied' = IF ok THEN [applied EXCEPT ![update] = @ + 1] ELSE applied
        /\ failures' = IF ok THEN failures ELSE failures + 1
        /\ drains' = IF rest = <<>>
                       THEN SubSeq(drains, 1, d - 1) \o SubSeq(drains, d + 1, Len(drains))
                       ELSE [drains EXCEPT ![d] = running(dr.no, rest, objs, now)]
        /\ execLog' = execLog \cup {executed(dr, updateObjects, ok, now)}
  /\ UNCHANGED <<now, feedbackHistory, pendingReviews, reviewerWorkload, nextTick,
                 drainsStarted, ret, calls>>
  /\ UNCHANGED <<graphVars, scoreVars>>

\* Time passes up to the next timer expiry.
AdvanceWithin(limit) ==
  LET timers == {nextTick} \cup {drains[d].finishAt : d \in 1..Len(drains)}
      next == CHOOSE t \in timers : \A u \in timers : t <= u
  IN /\ next > now
     /\ next <= limit
     /\ now' = next
     /\ UNCHANGED <<feedbackHistory, pendingReviews, modelPerformance, updateQueue,
                    reviewerWorkload, nextTick, drains, updateObjects, drainsStarted, ret,
                    calls, failures, applied, execLog>>
     /\ UNCHANGED <<graphVars, scoreVars>>

Advance == AdvanceWithin(MaxTime)

(***************************************************************************)
(* Inputs.                                                                 *)
(***************************************************************************)
fb(transactionId, actualLabel, confidence, reviewerId, reviewTimestamp, evidenceType) ==
  [transactionId |-> transactionId, actualLabel |-> actualLabel, confidence |-> confidence,
   reviewerId |-> reviewerId, reviewTimestamp |-> reviewTimestamp, evidenceType |-> evidenceType]

pred(transactionId, fraudProbability, riskLevel, explanation, biometricAnomalies, confidence) ==
  [transactionId |-> transactionId, fraudProbability |-> fraudProbability,
   riskLevel |-> riskLevel, explanation |-> explanation,
   biometricAnomalies |-> biometricAnomalies, confidence |-> confidence]

txn(amount, hour, category) ==
  [id |-> "tx", userId |-> "user_001", amount |-> amount, timestamp |-> hour,
   location |-> [lat |-> 40, lng |-> -74, country |-> "US", city |-> "New York"],
   merchant |-> [id |-> "merch_001", name |-> "Amazon", category |-> category],
   deviceId |-> "device_1", paymentMethod |-> "credit_card"]

FeedbackInputs(t) ==
  { fb("tx1", "fraud", 950, "analyst_001", t, "bank_confirmation"),
    fb("tx2", "legitimate", 800, "analyst_002", t, "manual_review"),
    fb("tx1", "legitimate", 900, "reviewer_x", t, "bank_confirmation"),
    fb("tx3", "fraud", 950, Undefined, t, "bank_confirmation"),
    fb(Undefined, "fraud", 800, "analyst_001", t, "manual_review"),
    fb("tx2", Undefined, 950, "analyst_002", t, "bank_confirmation") }

manualBatch(t) ==
  << fb("tx1", "fraud", 800, "analyst_001", t, "manual_review"),
     fb("tx2", "legitimate", 700, "analyst_002", t, "manual_review"),
     fb("tx3", "fraud", 600, "analyst_001", t, "customer_dispute"),
     fb("tx4", "unknown", 500, "analyst_003", t, "manual_review"),
     fb("tx5", "legitimate", 900, "analyst_002", t, "automated_verification") >>

confirmedBatch(t) ==
  << fb("tx1", "fraud", 950, "analyst_001", t, "bank_confirmation"),
     fb("tx2", "fraud", 990, "analyst_002", t, "bank_confirmation"),
     fb("tx3", "legitimate", 950, "analyst_001", t, "bank_confirmation"),
     fb("tx4", "fraud", 1000, "analyst_003", t, "bank_confirmation"),
     fb("tx5", "legitimate", 920, "analyst_002", t, "bank_confirmation") >>

BatchInputs(t) ==
  { manualBatch(t),
    << fb("tx6", "fraud", 800, "analyst_003", t, "manual_review"),
       fb("tx6", "legitimate", 850, "analyst_003", t, "customer_dispute") >>,
    << fb("tx3", "fraud", 950, "analyst_003", t, "bank_confirmation"),
       fb("tx4", "fraud", 800, Undefined, t, "manual_review"),
       fb("tx5", "legitimate", 800, "analyst_001", t, "manual_review") >> }

IdentifyInputs ==
  { [predictions |-> << pred("tx1", 500, "medium", 1, 0, 800),
                        pred("tx2", 950, "high", 3, 3, 900),
                        pred("tx3", 450, "medium", 0, 0, 750) >>,
     transactions |-> << txn(1500, 12, "retail"), txn(6000, 2, "atm"), txn(200, 12, "food") >>],
    [predictions |-> << pred("tx4", 720, "high", 4, 3, 720), pred("tx1", 550, "medium", 2, 1, 900) >>,
     transactions |-> << txn(12000, 23, "bank"), txn(800, 3, "atm") >>] }

DriftInputs == {-50, 0, 49}

Next ==
  \/ \E feedback \in FeedbackInputs(now) : SubmitFeedback(feedback)
  \/ \E feedbackBatch \in BatchInputs(now) : SubmitBatchFeedback(feedbackBatch)
  \/ \E in \in IdentifyInputs : IdentifyUncertain(in)
  \/ \E randomVariation \in DriftInputs : Tick(randomVariation)
  \/ \E d \in 1..Len(drains), ok \in BOOLEAN : ExecFinish(d, ok)
  \/ Advance

Spec == Init /\ [][Next]_vars

\* The drain under load: bank-confirmed feedback, single and in batches of five.
NextDrain ==
  \/ SubmitFeedback(fb("tx6", "fraud", 950, "analyst_003", now, "bank_confirmation"))
  \/ SubmitBatchFeedback(confirmedBatch(now))
  \/ Tick(0)
  \/ \E d \in 1..Len(drains), ok \in BOOLEAN : ExecFinish(d, ok)
  \/ Advance

SpecDrain == Init /\ [][NextDrain]_vars

\* The drain behind a backlog: batches of ten bank-confirmed records, so that a
\* drain is still executing when the next tick comes.
NextBacklog ==
  \/ SubmitBatchFeedback(confirmedBatch(now) \o confirmedBatch(now))
  \/ Tick(0)
  \/ \E d \in 1..Len(drains), ok \in BOOLEAN : ExecFinish(d, ok)
  \/ Advance

SpecBacklog == Init /\ [][NextBacklog]_vars

\* The queue over the minutes in which a medium-priority request becomes due.
NextSchedule ==
  \/ SubmitBatchFeedback(manualBatch(now))
  \/ SubmitFeedback(fb("tx6", "fraud", 950, "analyst_003", now, "bank_confirmation"))
  \/ Tick(0)
  \/ \E d \in 1..Len(drains), ok \in BOOLEAN : ExecFinish(d, ok)
  \/ AdvanceWithin(MaxDelayTime)

SpecSchedule == Init /\ [][NextSchedule]_vars

\* The queue until every request that came in during the first minute has been
\* executed: long enough for a medium-priority request to become due and for
\* every failure the model allows to be retried.  The timer of setInterval
\* keeps firing, the timer of an execution expires, and time passes.
Horizon == 4 * TickInterval + MediumDelay + MaxFailures * (RetryDelay + 2 * TickInterval)

NextLive ==
  \/ /\ now < 2 * TickInterval
     /\ SubmitFeedback(fb("tx6", "fraud", 950, "analyst_003", now, "bank_confirmation"))
  \/ now < 2 * TickInterval /\ SubmitBatchFeedback(manualBatch(now))
  \/ Tick(0)
  \/ \E d \in 1..Len(drains), ok \in BOOLEAN : ExecFinish(d, ok)
  \/ AdvanceWithin(Horizon)

SpecLive ==
  /\ Init /\ [][NextLive]_vars
  /\ WF_vars(Tick(0))
  /\ WF_vars(\E d \in 1..Len(drains), ok \in BOOLEAN : ExecFinish(d, ok))
  /\ WF_vars(AdvanceWithin(Horizon))

\* The model performance over the minutes after feedback that came in before
\* the first tick: one bank-confirmed record, a batch of five and a batch of
\* twenty-five manual reviews, under the extreme drifts.
NextPerformance ==
  \/ now = 0 /\ SubmitFeedback(fb("tx6", "fraud", 950, "analyst_003", now, "bank_confirmation"))
  \/ /\ now = 0
     /\ \E feedbackBatch \in
             { manualBatch(now),
               manualBatch(now) \o manualBatch(now) \o manualBatch(now)
                 \o manualBatch(now) \o manualBatch(now) } :
          SubmitBatchFeedback(feedbackBatch)
  \/ \E randomVariation \in {-50, 49} : Tick(randomVariation)
  \/ \E d \in 1..Len(drains), ok \in BOOLEAN : ExecFinish(d, ok)
  \/ AdvanceWithin(MaxDelayTime)

SpecPerformance == Init /\ [][NextPerformance]_vars

\* Review rounds of fourteen, ten and five transactions: more than the review
\* capacity, all with confidence 0.9 but one and, unless given, a small amount
\* at a food merchant.
ReviewInputs ==
  LET uncertain(transactionId, fraudProbability) ==
        [prediction |-> pred(transactionId, fraudProbability, "medium", 1, 0, 900),
         transaction |-> txn(100, 12, "food")]
      large(transactionId, fraudProbability, riskLevel) ==
        [prediction |-> pred(transactionId, fraudProbability, riskLevel, 1, 0, 900),
         transaction |-> txn(1500, 12, "retail")]
      all ==
        << large("q01", 500, "medium"), uncertain("q02", 510), uncertain("q03", 520),
           [prediction |-> pred("q04", 480, "medium", 3, 1, 900), transaction |-> txn(6000, 2, "atm")],
           uncertain("q05", 450), uncertain("q06", 420),
           [prediction |-> pred("q07", 400, "low", 1, 0, 900), transaction |-> txn(200, 12, "food")],
           [prediction |-> pred("q08", 950, "high", 4, 3, 500), transaction |-> txn(12000, 23, "bank")],
           large("q09", 700, "medium"), uncertain("q10", 530), uncertain("q11", 540),
           uncertain("q12", 470), large("q13", 490, "medium"), uncertain("q14", 465) >>
      round(items) ==
        [predictions |-> [i \in 1..Len(items) |-> items[i].prediction],
         transactions |-> [i \in 1..Len(items) |-> items[i].transaction]]
  IN {round(all), round(SubSeq(all, 1, 10)), round(SubSeq(all, 5, 9))}

NextReview ==
  \/ \E in \in ReviewInputs : IdentifyUncertain(in)
  \/ \E feedback \in
          { fb("q04", "fraud", 950, "senior_analyst_001", now, "bank_confirmation"),
            fb("q06", "legitimate", 800, "analyst_001", now, "manual_review"),
            fb("q13", "fraud", 700, "analyst_002", now, "customer_dispute") } :
        SubmitFeedback(feedback)

SpecReview == Init /\ [][NextReview]_vars

(***************************************************************************)
(* GraphBuilder.buildTransactionGraph.  nodeMap is keyed by the bare id,   *)
(* whatever the node's type.                                               *)
(***************************************************************************)
\* `${city}_${country}`, for the cities and countries of the model's inputs.
locationIdOf(location) ==
  CASE location.city = "New York" /\ location.country = "US" -> "New York_US"
    [] location.city = "Chicago" /\ location.country = "US" -> "Chicago_US"
    [] location.city = "merch" /\ location.country = "001" -> "merch_001"
    [] OTHER -> "Elsewhere_XX"

\* A node pushed without looking it up in nodeMap.
pushNode(g, node) == [g EXCEPT !.nodes = Append(@, node), !.nodeMap = @ \cup {node.id}]

addNode(g, node) ==
  IF node.id \in g.nodeMap THEN g
  ELSE [g EXCEPT !.nodes = Append(@, node), !.nodeMap = @ \cup {node.id}]

addTransaction(g, tx) ==
  LET locationId == locationIdOf(tx.location)
      g1 == addNode(g, [id |-> tx.userId, type |-> "user", properties |-> [userId |-> tx.userId]])
      g2 == addNode(g1, [id |-> tx.merchant.id, type |-> "merchant",
                         properties |-> [name |-> tx.merchant.name,
                                         category |-> tx.merchant.category]])
      g3 == addNode(g2, [id |-> tx.deviceId, type |-> "device",
                         properties |-> [deviceId |-> tx.deviceId]])
      g4 == addNode(g3, [id |-> locationId, type |-> "location", properties |-> tx.location])
  IN [g4 EXCEPT !.edges = @ \o
        << [source |-> tx.userId, target |-> tx.merchant.id, type |-> "transacted_with",
            weight |-> tx.amount, timestamp |-> tx.timestamp],
           [source |-> tx.userId, target |-> tx.deviceId, type |-> "used_device",
            weight |-> 1, timestamp |-> tx.timestamp],
           [source |-> tx.deviceId, target |-> locationId, type |-> "located_at",
            weight |-> 1, timestamp |-> tx.timestamp] >>]

RECURSIVE buildFrom(_, _)
buildFrom(g, transactions) ==
  IF transactions = <<>> THEN g
  ELSE buildFrom(addTransaction(g, Head(transactions)), Tail(transactions))

buildTransactionGraph(transactions) ==
  LET g == buildFrom([nodes |-> <<>>, edges |-> <<>>, nodeMap |-> {}], transactions)
  IN [nodes |-> g.nodes, edges |-> g.edges]

gtx(id, userId, amount, merchant, deviceId, location) ==
  [id |-> id, userId |-> userId, amount |-> amount, timestamp |-> 12, location |-> location,
   merchant |-> merchant, deviceId |-> deviceId, paymentMethod |-> "credit_card"]

GraphTransactions ==
  { gtx("g1", "user_001", 120, [id |-> "merch_001", name |-> "Amazon", category |-> "retail"],
        "device_1", [lat |-> 40, lng |-> -74, country |-> "US", city |-> "New York"]),
    gtx("g2", "user_002", 700, [id |-> "merch_001", name |-> "Amazon Fresh", category |-> "food"],
        "device_1", [lat |-> 41, lng |-> -73, country |-> "US", city |-> "New York"]),
    gtx("g3", "merch_001", 6000, [id |-> "merch_005", name |-> "ATM_001", category |-> "atm"],
        "device_2", [lat |-> 41, lng |-> -87, country |-> "US", city |-> "Chicago"]),
    gtx("g4", "user_002", 50, [id |-> "device_2", name |-> "Shell", category |-> "gas"],
        "device_3", [lat |-> 0, lng |-> 0, country |-> "001", city |-> "merch"]) }

GraphInputs == UNION {[1..n -> GraphTransactions] : n \in 0..MaxGraphTxs}

Reorderings(n) == {p \in [1..n -> 1..n] : \A i, j \in 1..n : i # j => p[i] # p[j]}

BuildGraph(transactions) ==
  /\ graphInput' = transactions
  /\ graphResult' = buildTransactionGraph(transactions)
  /\ permutedResult' = buildTransactionGraph(transactions)
  /\ UNCHANGED <<fsVars, scoreVars>>

BuildPermuted(p) ==
  /\ permutedResult' = buildTransactionGraph([i \in 1..Len(graphInput) |-> graphInput[p[i]]])
  /\ UNCHANGED <<graphInput, graphResult>>
  /\ UNCHANGED <<fsVars, scoreVars>>

NextGraph ==
  \/ \E transactions \in GraphInputs : BuildGraph(transactions)
  \/ \E p \in Reorderings(Len(graphInput)) : BuildPermuted(p)

SpecGraph == Init /\ [][NextGraph]_vars

Range(f) == {f[i] : i \in 1..Len(f)}

\* C8: buildTransactionGraph is invariant under reordering of its input: every
\* permutation of the transactions yields the same set of nodes (id, type and
\* properties) and the same set of edges.
C8_GraphOrderInvariant ==
  /\ Range(permutedResult.nodes) = Range(graphResult.nodes)
  /\ Range(permutedResult.edges) = Range(graphResult.edges)

\* C35: the graph that buildTransactionGraph returns has no two nodes with the
\* same id, the source and the target of every edge are ids of returned nodes,
\* and every transaction contributes exactly three edges: from its user to its
\* merchant with the amount as weight, from its user to its device with weight
\* 1 and from its device to its location with weight 1.
C35_GraphWellFormed ==
  LET nodes == graphResult.nodes
      edges == graphResult.edges
      ids == {nodes[i].id : i \in 1..Len(nodes)}
      ends(e) == <<e.source, e.target, e.weight>>
  IN /\ \A i, j \in 1..Len(nodes) : nodes[i].id = nodes[j].id => i = j
     /\ \A k \in 1..Len(edges) : edges[k].source \in ids /\ edges[k].target \in ids
     /\ Len(edges) = 3 * Len(graphInput)
     /\ \A t \in 1..Len(graphInput) :
          LET tx == graphInput[t]
              city == tx.location.city
              locationId == IF city = "merch" THEN "merch_001"
                            ELSE IF city = "Chicago" THEN "Chicago_US" ELSE "New York_US"
          IN /\ ends(edges[3 * t - 2]) = <<tx.userId, tx.merchant.id, tx.amount>>
             /\ ends(edges[3 * t - 1]) = <<tx.userId, tx.deviceId, 1>>
             /\ ends(edges[3 * t]) = <<tx.deviceId, locationId, 1>>

\* A graph of three transactions that share a merchant id, a device and a
\* city: nine edges over fewer nodes than the transactions name.
C35_Witness ==
  /\ Len(graphInput) = 3
  /\ Len(graphResult.edges) = 9
  /\ Len(graphResult.nodes) < 8
  /\ \E i, j \in 1..3 : i # j /\ graphInput[i].merchant.id = graphInput[j].merchant.id
                         /\ graphInput[i].userId # graphInput[j].userId

(***************************************************************************)
(* BiometricsProcessor.  A sample's arrays (dwellTimes, flightTimes,       *)
(* velocity, acceleration, clickPatterns), its typingSpeed and orientation *)
(* are whole numbers; its accelerometer and gyroscope readings are in      *)
(* thousandths.  Profile baselines are fixed-point numbers with five       *)
(* decimals (Fix), so that 0.9*old + 0.1*observed is exact for the first   *)
(* updates of a profile; a profile's confidence is in thousandths.         *)
(* An anomaly is [type, severity, description]; its confidence and         *)
(* deviationScore, which nothing downstream reads, are left out.           *)
(***************************************************************************)
Fix(x) == x * 100000

RECURSIVE Sum(_)
Sum(values) == IF values = <<>> THEN 0 ELSE Head(values) + Sum(Tail(values))

RECURSIVE SumSq(_)
SumSq(values) == IF values = <<>> THEN 0 ELSE Head(values) * Head(values) + SumSq(Tail(values))

\* values.reduce((a, b) => a + b, 0) / values.length
Mean(values) == Fix(Sum(values)) \div Len(values)

\* Number.prototype.toFixed(1), in tenths.
toFixed1(x) == (x + 5000) \div 10000

text(t, args) == [text |-> t, args |-> args]

\* A deviation test that includes its threshold.
deviatesOrEquals(observed, baseline, tenths) == 10 * Abs(observed - baseline) >= tenths * baseline

\* deviation = |observed - baseline| / baseline > tenths / 10, for a positive baseline
deviates(observed, baseline, tenths) == 10 * Abs(observed - baseline) > tenths * baseline

\* calculateVariance(values) compared with a bound: variance = (n*sum(v^2) - sum(v)^2) / n^2
varianceBelow(values, bound) ==
  Len(values) * SumSq(values) - Sum(values) * Sum(values) < bound * Len(values) * Len(values)
varianceAbove(values, bound) ==
  Len(values) * SumSq(values) - Sum(values) * Sum(values) > bound * Len(values) * Len(values)

classifyMovementPattern(velocity, acceleration) ==
  IF varianceBelow(velocity, 50000) /\ varianceBelow(acceleration, 25000) THEN "smooth"
  ELSE IF varianceAbove(velocity, 150000) \/ varianceAbove(acceleration, 75000) THEN "jerky"
  ELSE "mixed"

\* calculateVectorDeviation squared, in millionths: the mean of the squared
\* differences (each difference in thousandths, cut at 20 so that its square fits).
calculateVectorDeviationSq(current, baseline) ==
  IF Len(current) # Len(baseline) THEN 1000000
  ELSE LET diff(i) == Min(20000, Abs(current[i] * 100 - baseline[i]) \div 100)
       IN Sum([i \in 1..Len(current) |-> diff(i) * diff(i)]) \div Len(current)

analyzeKeystrokeDynamics(data, profile) ==
  LET keystrokeDynamics == data.keystrokeDynamics
      keystrokeProfile == profile.keystrokeProfile
      avgDwellTime == Mean(keystrokeDynamics.dwellTimes)
      avgFlightTime == Mean(keystrokeDynamics.flightTimes)
      typingSpeed == Fix(keystrokeDynamics.typingSpeed)
  IN (IF deviates(avgDwellTime, keystrokeProfile.avgDwellTime, 4)
        THEN << [type |-> "keystroke",
                 severity |-> IF deviates(avgDwellTime, keystrokeProfile.avgDwellTime, 7)
                                THEN "high" ELSE "medium",
                 description |-> text("Unusual key dwell time",
                     <<toFixed1(avgDwellTime), toFixed1(keystrokeProfile.avgDwellTime)>>)] >>
        ELSE <<>>)
  \o (IF deviates(avgFlightTime, keystrokeProfile.avgFlightTime, 4)
        THEN << [type |-> "keystroke",
                 severity |-> IF deviates(avgFlightTime, keystrokeProfile.avgFlightTime, 7)
                                THEN "high" ELSE "medium",
                 description |-> text("Unusual key flight time",
                     <<toFixed1(avgFlightTime), toFixed1(keystrokeProfile.avgFlightTime)>>)] >>
        ELSE <<>>)
  \o (IF deviates(typingSpeed, keystrokeProfile.preferredTypingSpeed, 5)
        THEN << [type |-> "keystroke",
                 severity |-> IF deviates(typingSpeed, keystrokeProfile.preferredTypingSpeed, 8)
                                THEN "high" ELSE "medium",
                 description |-> text("Unusual typing speed",
                     <<toFixed1(typingSpeed), toFixed1(keystrokeProfile.preferredTypingSpeed)>>)] >>
        ELSE <<>>)

analyzeMouseMovements(data, profile) ==
  LET mouseMovements == data.mouseMovements
      mouseProfile == profile.mouseProfile
      avgVelocity == Mean(mouseMovements.velocity)
      avgAcceleration == Mean(mouseMovements.acceleration)
      currentPattern == classifyMovementPattern(mouseMovements.velocity, mouseMovements.acceleration)
  IN (IF deviates(avgVelocity, mouseProfile.avgVelocity, 5)
        THEN << [type |-> "mouse",
                 severity |-> IF deviates(avgVelocity, mouseProfile.avgVelocity, 8)
                                THEN "high" ELSE "medium",
                 description |-> text("Unusual mouse velocity",
                     <<toFixed1(avgVelocity), toFixed1(mouseProfile.avgVelocity)>>)] >>
        ELSE <<>>)
  \o (IF deviates(avgAcceleration, mouseProfile.avgAcceleration, 5)
        THEN << [type |-> "mouse",
                 severity |-> IF deviates(avgAcceleration, mouseProfile.avgAcceleration, 8)
                                THEN "high" ELSE "medium",
                 description |-> text("Unusual mouse acceleration pattern detected", <<>>)] >>
        ELSE <<>>)
  \o (IF currentPattern # mouseProfile.movementPattern
        THEN << [type |-> "mouse", severity |-> "medium",
                 description |-> text("Movement pattern changed from " \o mouseProfile.movementPattern
                                        \o " to " \o currentPattern, <<>>)] >>
        ELSE <<>>)

analyzeDeviceSensors(data, profile) ==
  LET deviceSensors == data.deviceSensors
      deviceProfile == profile.deviceProfile
      accelDeviationSq == calculateVectorDeviationSq(deviceSensors.accelerometer,
                                                     deviceProfile.accelerometerBaseline)
      gyroDeviationSq == calculateVectorDeviationSq(deviceSensors.gyroscope,
                                                    deviceProfile.gyroscopeBaseline)
      orientationDifference == Abs(Fix(deviceSensors.orientation) - deviceProfile.orientationPreference)
  IN (IF accelDeviationSq > 250000
        THEN << [type |-> "device",
                 severity |-> IF accelDeviationSq > 640000 THEN "high" ELSE "medium",
                 description |-> text("Unusual device movement detected (accelerometer)", <<>>)] >>
        ELSE <<>>)
  \o (IF gyroDeviationSq > 250000
        THEN << [type |-> "device",
                 severity |-> IF gyroDeviationSq > 640000 THEN "high" ELSE "medium",
                 description |-> text("Unusual device rotation detected (gyroscope)", <<>>)] >>
        ELSE <<>>)
  \o (IF 10 * orientationDifference > 3 * Fix(360)
        THEN << [type |-> "device", severity |-> "low",
                 description |-> text("Device orientation differs from usual preference", <<>>)] >>
        ELSE <<>>)

\* A moving average with alpha = 0.2.
fasterAverage(old, observed) == (8 * old + 2 * observed) \div 10

\* (1 - alpha) * old + alpha * observed, alpha = 0.1
ema(old, observed) == (9 * old + observed) \div 10

updateUserProfile(data, profile, t) ==
  [profile EXCEPT
     !.keystrokeProfile.avgDwellTime = ema(@, Mean(data.keystrokeDynamics.dwellTimes)),
     !.keystrokeProfile.avgFlightTime = ema(@, Mean(data.keystrokeDynamics.flightTimes)),
     !.keystrokeProfile.preferredTypingSpeed = ema(@, Fix(data.keystrokeDynamics.typingSpeed)),
     !.mouseProfile.avgVelocity = ema(@, Mean(data.mouseMovements.velocity)),
     !.mouseProfile.avgAcceleration = ema(@, Mean(data.mouseMovements.acceleration)),
     !.deviceProfile.accelerometerBaseline =
        [i \in 1..3 |-> ema(@[i], data.deviceSensors.accelerometer[i] * 100)],
     !.deviceProfile.gyroscopeBaseline =
        [i \in 1..3 |-> ema(@[i], data.deviceSensors.gyroscope[i] * 100)],
     !.sessionCount = @ + 1,
     !.lastUpdated = t,
     !.confidence = Min(950, @ + 10)]

\* generateBaselineProfile: the random draws are the argument `drawn`.
generateBaselineProfile(userId, drawn, t) == [drawn EXCEPT !.userId = userId, !.lastUpdated = t]

initializeBaselineProfiles(drawn, t) ==
  LET baselineUsers == <<"user_001", "user_002", "user_003", "user_004", "user_005">>
  IN [i \in 1..Len(baselineUsers) |->
        [key |-> baselineUsers[i], value |-> generateBaselineProfile(baselineUsers[i], drawn, t)]]

\* A processor that works on the profile as it was before the earliest call
\* still in flight processed a sample of this user.
storeSampleHeld(proc, data, drawn, t) ==
  LET held == {i \in 1..Len(inFlight) :
                 /\ inFlight[i].pc = "processed"
                 /\ inFlight[i].body.biometric.userId = data.userId}
      profiles == IF held = {} THEN proc.userProfiles
                  ELSE inFlight[CHOOSE i \in held : \A j \in held : i <= j].pre.userProfiles
      found == MapHas(profiles, data.userId)
      userProfile == IF found THEN MapGet(profiles, data.userId)
                     ELSE generateBaselineProfile(data.userId, drawn, t)
      sessions == MapSet(proc.sessionData, data.sessionId,
                         Append(IF MapHas(proc.sessionData, data.sessionId)
                                  THEN MapGet(proc.sessionData, data.sessionId) ELSE <<>>, data))
  IN [userProfile |-> userProfile,
      proc |-> [proc EXCEPT !.userProfiles = IF MapHas(@, data.userId) THEN @
                                             ELSE MapSet(@, data.userId, userProfile),
                            !.sessionData = sessions]]

\* The first half of processBiometricData: the profile is looked up or
\* generated, and the sample is appended to its session.
storeSample(proc, data, drawn, t) ==
  LET found == MapHas(proc.userProfiles, data.userId)
      userProfile == IF found THEN MapGet(proc.userProfiles, data.userId)
                     ELSE generateBaselineProfile(data.userId, drawn, t)
      sessions == MapSet(proc.sessionData, data.sessionId,
                         Append(IF MapHas(proc.sessionData, data.sessionId)
                                  THEN MapGet(proc.sessionData, data.sessionId) ELSE <<>>, data))
  IN [userProfile |-> userProfile,
      proc |-> [proc EXCEPT !.userProfiles = IF found THEN @
                                             ELSE MapSet(@, data.userId, userProfile),
                            !.sessionData = sessions]]

\* The second half of processBiometricData: the three analyses against the
\* profile as it was found, then the update of the profile.
analyseAndUpdate(stored, data, t) ==
  [proc |-> [stored.proc EXCEPT !.userProfiles =
               MapSet(@, data.userId, updateUserProfile(data, stored.userProfile, t))],
   anomalies |-> analyzeKeystrokeDynamics(data, stored.userProfile)
                 \o analyzeMouseMovements(data, stored.userProfile)
                 \o analyzeDeviceSensors(data, stored.userProfile),
   threw |-> FALSE]

\* A sample whose analysis throws a TypeError (a property of an absent object is
\* read): nothing after the session store has run.
thrown(stored) == [proc |-> stored.proc, anomalies |-> <<>>, threw |-> TRUE]

\* The same, had the keystroke timings been folded into the profile as soon as
\* they were read.
thrownAfterKeystrokes(stored, data) ==
  [proc |-> [stored.proc EXCEPT !.userProfiles =
               MapSet(@, data.userId,
                      [stored.userProfile EXCEPT !.keystrokeProfile.avgDwellTime =
                         ema(@, Mean(data.keystrokeDynamics.dwellTimes))])],
   anomalies |-> <<>>, threw |-> TRUE]

\* A processor that updates the profile while it analyses the sample.
updateWhileAnalysing(proc, data, drawn, t) ==
  IF data.keystrokeDynamics = Missing
    THEN thrown(storeSample(proc, data, drawn, t))
  ELSE IF data.mouseMovements = Missing \/ data.deviceSensors = Missing
    THEN thrownAfterKeystrokes(storeSample(proc, data, drawn, t), data)
  ELSE analyseAndUpdate(storeSample(proc, data, drawn, t), data, t)

\* A processor that updates the profile before it analyses the sample.
updateBeforeAnalysing(proc, data, drawn, t) ==
  IF data.keystrokeDynamics = Missing \/ data.mouseMovements = Missing
     \/ data.deviceSensors = Missing
    THEN thrown(storeSample(proc, data, drawn, t))
    ELSE LET stored == storeSample(proc, data, drawn, t)
             updated == updateUserProfile(data, stored.userProfile, t)
         IN [proc |-> [stored.proc EXCEPT !.userProfiles = MapSet(@, data.userId, updated)],
             anomalies |-> analyzeKeystrokeDynamics(data, updated)
                           \o analyzeMouseMovements(data, updated)
                           \o analyzeDeviceSensors(data, updated),
             threw |-> FALSE]

\* processBiometricData: the processor after the call, the anomalies, and whether
\* the call threw.  The profile is updated only after the three analyses have
\* returned.
processBiometricData(proc, data, drawn, t) ==
  IF data.keystrokeDynamics = Missing \/ data.mouseMovements = Missing
     \/ data.deviceSensors = Missing
    THEN thrown(storeSample(proc, data, drawn, t))
    ELSE analyseAndUpdate(storeSample(proc, data, drawn, t), data, t)

(***************************************************************************)
(* Claims about the FeedbackSystem.                                        *)
(***************************************************************************)
InQueue(update) == \E i \in 1..Len(updateQueue) : updateQueue[i] = update

\* C1: a transaction id with a record in the feedback history is never in the
\* pending-review queue, and an identifyUncertain call made once the record is
\* stored returns no query for that id.
C1_ResolvedNeverPending ==
  /\ \A i \in 1..Len(feedbackHistory), j \in 1..Len(pendingReviews) :
       feedbackHistory[i].key # pendingReviews[j].key
  /\ ret.op = "identifyUncertain" =>
       \A j \in 1..Len(ret.queries), i \in 1..Len(feedbackHistory) :
         ret.queries[j].transactionId # feedbackHistory[i].key

\* An identifyUncertain call that was handed a resolved id together with ids it
\* selected, while the pending queue is populated.
C1_Witness ==
  /\ ret.op = "identifyUncertain"
  /\ ret.queries # <<>>
  /\ pendingReviews # <<>>
  /\ \E i \in 1..Len(ret.arg.predictions), j \in 1..Len(feedbackHistory) :
       ret.arg.predictions[i].transactionId = feedbackHistory[j].key

\* C2: no queued update is executed twice: the performance nudge and the
\* sampleSize increment of an update are applied at most once, whatever the
\* timing of ticks and running drains.
C2_NoDoubleExecution ==
  \A update \in 1..Len(applied) : applied[update] <= 1

\* C4: submitFeedback with transactionId, actualLabel or reviewerId absent fails
\* with the invalid-input error and leaves the feedback history, the pending
\* reviews, the reviewer workload and the update queue unchanged.
C4_InvalidFeedbackRejected ==
  [][ ( /\ calls' = calls + 1
        /\ ret'.op = "submitFeedback"
        /\ \/ ret'.arg.transactionId = Undefined
           \/ ret'.arg.actualLabel = Undefined
           \/ ret'.arg.reviewerId = Undefined )
      => ( /\ ret'.error = "Invalid feedback data: missing required fields"
           /\ feedbackHistory' = feedbackHistory
           /\ pendingReviews' = pendingReviews
           /\ reviewerWorkload' = reviewerWorkload
           /\ updateQueue' = updateQueue
           /\ updateObjects' = updateObjects ) ]_vars

\* A rejected submitFeedback (reviewerId absent) on a populated system.
C4_Witness ==
  /\ ret.op = "submitFeedback"
  /\ ret.arg.reviewerId = Undefined
  /\ ret.error # "none"
  /\ feedbackHistory # <<>>
  /\ updateQueue # <<>>

\* C5: an update whose execution failed stays in the queue until an execution of
\* it succeeds, rescheduled to the failure time plus 10 minutes, and no execution
\* of it runs before that time: an update is due when its execution starts and
\* still due when it ends.
C5_FailedUpdateRetriedNotBefore ==
  /\ \A e \in execLog :
       (~e.ok /\ applied[e.id] = 0) =>
          /\ InQueue(e.id)
          /\ updateObjects[e.id].scheduledTime >= e.end + RetryDelay
  /\ \A e \in execLog : e.start >= e.scheduledAtStart /\ e.end >= e.scheduledAtEnd

\* C6: the update queue is ordered by priority in every reachable state: no
\* medium or low request precedes a high one, no low request precedes a medium one.
C6_QueuePrioritySorted ==
  \A i, j \in 1..Len(updateQueue) :
    i < j =>
      LET a == updateObjects[updateQueue[i]].priority
          b == updateObjects[updateQueue[j]].priority
      IN /\ ~(a # "high" /\ b = "high")
         /\ ~(a = "low" /\ b = "medium")

\* Two drains in flight, a failed execution behind, and a high-priority request
\* that was created after a medium one standing before it in the queue.
C6_Witness ==
  /\ Len(drains) >= 2
  /\ failures >= 1
  /\ \E i, j \in 1..Len(updateQueue) :
       /\ i < j
       /\ updateQueue[i] > updateQueue[j]
       /\ updateObjects[updateQueue[i]].priority = "high"
       /\ updateObjects[updateQueue[j]].priority = "medium"

\* C7: no queued update is lost: an update request is in the queue until an
\* execution of that very update has succeeded, also when it was enqueued while
\* a drain was executing another update.
C7_NoLostUpdate ==
  \A update \in 1..Len(updateObjects) : applied[update] = 0 => InQueue(update)

\* A drain has finished, and a request enqueued while that drain was between two
\* of its executions is still queued.
C7_Witness ==
  /\ drains = <<>>
  /\ \E update \in 1..Len(updateObjects), e1, e2 \in execLog :
       /\ InQueue(update)
       /\ updateObjects[update].priority = "high"
       /\ e1.drain = e2.drain
       /\ e1.ok /\ e2.ok
       /\ e1.end <= updateObjects[update].scheduledTime
       /\ updateObjects[update].scheduledTime < e2.end
       /\ e1.start < updateObjects[update].scheduledTime

\* C11: submitBatchFeedback with a record that lacks transactionId, actualLabel
\* or reviewerId, wherever it sits in the batch, fails and leaves the feedback
\* history, the pending reviews, the reviewer workload and the update queue as
\* they were before the call.
C11_MalformedBatchRejectedWhole ==
  [][ ( /\ calls' = calls + 1
        /\ ret'.op = "submitBatchFeedback"
        /\ \E i \in 1..Len(ret'.arg) :
             \/ ret'.arg[i].transactionId = Undefined
             \/ ret'.arg[i].actualLabel = Undefined
             \/ ret'.arg[i].reviewerId = Undefined )
      => ( /\ ret'.error # "none"
           /\ feedbackHistory' = feedbackHistory
           /\ pendingReviews' = pendingReviews
           /\ reviewerWorkload' = reviewerWorkload
           /\ updateQueue' = updateQueue
           /\ updateObjects' = updateObjects ) ]_vars

\* C14: a successful submitFeedback of a bank_confirmation record with
\* confidence above 0.9 adds exactly one request to the update queue: priority
\* high, updateType incremental, a batch holding that record, scheduled at the
\* submission time.  A bank_confirmation record with confidence exactly 0.9 adds
\* nothing while fewer than ten records are in the history.
C14_BankConfirmationTriggersUpdate ==
  [][ ( /\ calls' = calls + 1
        /\ ret'.op = "submitFeedback"
        /\ ret'.error = "none"
        /\ ret'.arg.evidenceType = "bank_confirmation" )
      => /\ ret'.arg.confidence > 900 =>
              /\ updateObjects' = Append(updateObjects,
                                         [feedbackBatch |-> <<ret'.arg>>, updateType |-> "incremental",
                                          priority |-> "high", scheduledTime |-> now])
              /\ Len(updateQueue') = Len(updateQueue) + 1
              /\ \E i \in 1..Len(updateQueue') : updateQueue'[i] = Len(updateObjects')
              /\ \A i \in 1..Len(updateQueue) : \E j \in 1..Len(updateQueue') : updateQueue'[j] = updateQueue[i]
         /\ (ret'.arg.confidence = 900 /\ Len(feedbackHistory') < 10) =>
              /\ updateObjects' = updateObjects
              /\ updateQueue' = updateQueue ]_vars

\* A bank confirmation with confidence exactly 0.9 was accepted after one with
\* confidence 0.95, and only the latter is in the queue.
C14_Witness ==
  /\ ret.op = "submitFeedback"
  /\ ret.error = "none"
  /\ ret.arg.evidenceType = "bank_confirmation"
  /\ ret.arg.confidence = 900
  /\ Len(updateObjects) = 1
  /\ updateObjects[1].priority = "high"
  /\ updateObjects[1].feedbackBatch[1].confidence = 950
  /\ updateQueue = <<1>>

\* C15: a successful submitFeedback enqueues a high-priority incremental update
\* exactly when the record is a bank confirmation with confidence above 0.9 or at
\* least ten records have been submitted within the hour ending at the
\* submission, whatever their transaction ids.  Every submission is counted by
\* the workload of its reviewer, and no run here lasts an hour.
C15_TriggerCountsSubmissions ==
  [][ ( /\ calls' = calls + 1
        /\ ret'.op = "submitFeedback"
        /\ ret'.error = "none"
        /\ now < RecentWindow )
      => LET submitted == Sum([i \in 1..Len(reviewerWorkload') |-> reviewerWorkload'[i].value])
         IN ( /\ Len(updateObjects') = Len(updateObjects) + 1
              /\ updateObjects'[Len(updateObjects')].priority = "high"
              /\ updateObjects'[Len(updateObjects')].updateType = "incremental" )
            <=> ( \/ ret'.arg.evidenceType = "bank_confirmation" /\ ret'.arg.confidence > 900
                  \/ submitted >= 10 ) ]_vars

\* C16: a successful submitBatchFeedback of n records leaves what submitFeedback
\* of each record in order leaves and, if and only if n >= 5, one more request in
\* the update queue: priority medium, updateType incremental, its batch the
\* whole input.
C16_BatchOfFiveQueuesMediumUpdate ==
  [][ ( /\ calls' = calls + 1
        /\ ret'.op = "submitBatchFeedback"
        /\ ret'.error = "none" )
      => LET each == submitEach(FS, ret'.arg, 1, now).s
             medium(objs) == {i \in 1..Len(objs) : objs[i].priority = "medium"}
         IN /\ feedbackHistory' = each.feedbackHistory
            /\ pendingReviews' = each.pendingReviews
            /\ reviewerWorkload' = each.reviewerWorkload
            /\ Len(ret'.arg) < 5 =>
                 /\ updateObjects' = each.updateObjects
                 /\ updateQueue' = each.updateQueue
                 /\ medium(updateObjects') = medium(updateObjects)
            /\ Len(ret'.arg) >= 5 =>
                 /\ Len(updateObjects') = Len(each.updateObjects) + 1
                 /\ SubSeq(updateObjects', 1, Len(each.updateObjects)) = each.updateObjects
                 /\ updateObjects'[Len(updateObjects')].priority = "medium"
                 /\ updateObjects'[Len(updateObjects')].updateType = "incremental"
                 /\ updateObjects'[Len(updateObjects')].feedbackBatch = ret'.arg
                 /\ Cardinality(medium(updateObjects')) = Cardinality(medium(updateObjects)) + 1
                 /\ Len(updateQueue') = Len(each.updateQueue) + 1
                 /\ \E i \in 1..Len(updateQueue') : updateQueue'[i] = Len(updateObjects') ]_vars

\* A batch of two records about one transaction was applied in order without
\* an update after a batch of five had queued one.
C16_Witness ==
  /\ ret.op = "submitBatchFeedback"
  /\ ret.error = "none"
  /\ Len(ret.arg) = 2
  /\ MapHas(feedbackHistory, "tx6")
  /\ MapGet(feedbackHistory, "tx6").actualLabel = "legitimate"
  /\ \E i \in 1..Len(updateObjects) :
       updateObjects[i].priority = "medium" /\ Len(updateObjects[i].feedbackBatch) = 5

\* C22: the feedback history holds at most one record per transactionId; after
\* a successful submitFeedback the record stored for its id is the one just
\* given, the records of the other ids are as before, and no step removes an id
\* from the history.
C22_HistoryLatestWins ==
  [][ /\ \A i \in 1..Len(feedbackHistory') : \A j \in 1..Len(feedbackHistory') :
           feedbackHistory'[i].key = feedbackHistory'[j].key => i = j
      /\ \A i \in 1..Len(feedbackHistory') :
           feedbackHistory'[i].value.transactionId = feedbackHistory'[i].key
      /\ MapKeys(feedbackHistory) \subseteq MapKeys(feedbackHistory')
      /\ ( /\ calls' = calls + 1
           /\ ret'.op = "submitFeedback"
           /\ ret'.error = "none" )
         => /\ MapHas(feedbackHistory', ret'.arg.transactionId)
            /\ MapGet(feedbackHistory', ret'.arg.transactionId) = ret'.arg
            /\ \A k \in MapKeys(feedbackHistory) \ {ret'.arg.transactionId} :
                 MapGet(feedbackHistory', k) = MapGet(feedbackHistory, k)
      /\ ( /\ calls' = calls + 1
           /\ ret'.op = "submitBatchFeedback"
           /\ ret'.error = "none" )
         => \A i \in 1..Len(ret'.arg) :
              (\A j \in (i + 1)..Len(ret'.arg) :
                 ret'.arg[j].transactionId # ret'.arg[i].transactionId)
              => MapGet(feedbackHistory', ret'.arg[i].transactionId) = ret'.arg[i] ]_vars

\* A second record for tx1, by another reviewer and with the other label, has
\* replaced the bank confirmation whose update request is still queued.
C22_Witness ==
  /\ ret.op = "submitFeedback"
  /\ ret.error = "none"
  /\ ret.arg.transactionId = "tx1"
  /\ ret.arg.actualLabel = "legitimate"
  /\ Len(feedbackHistory) = 1
  /\ MapGet(feedbackHistory, "tx1") = ret.arg
  /\ Len(updateObjects) = 1
  /\ updateObjects[1].feedbackBatch[1].transactionId = "tx1"
  /\ updateObjects[1].feedbackBatch[1].actualLabel = "fraud"

\* C23: a tick hands to its drain exactly the queued updates whose scheduled
\* time is at or before the tick; no execution runs on an update whose scheduled
\* time is still ahead when it starts; and an execution removes its update from
\* the queue if it succeeded and leaves the queue as it is if it failed.
C23_TickExecutesDueUpdates ==
  [][ /\ nextTick' # nextTick =>
           LET due == {updateQueue[i] : i \in {j \in 1..Len(updateQueue) :
                          updateObjects[updateQueue[j]].scheduledTime <= now}}
           IN IF due = {} THEN drains' = drains
              ELSE /\ Len(drains') = Len(drains) + 1
                   /\ {drains'[Len(drains')].readyUpdates[i] :
                         i \in 1..Len(drains'[Len(drains')].readyUpdates)} = due
      /\ \A e \in execLog' \ execLog :
           /\ e.scheduledAtStart <= e.start
           /\ e.ok => /\ \A i \in 1..Len(updateQueue') : updateQueue'[i] # e.id
                      /\ {updateQueue'[i] : i \in 1..Len(updateQueue')}
                           = {updateQueue[i] : i \in 1..Len(updateQueue)} \ {e.id}
           /\ ~e.ok => updateQueue' = updateQueue ]_vars

\* C24: every update request enters the queue with scheduled time = the time of
\* the call + 0 for priority high, + 5 minutes for medium, + 30 minutes for low,
\* and no execution of a medium-priority request starts earlier than 5 minutes
\* after it was enqueued.  The records of a request carry the time of the call
\* that enqueued it.
C24_ScheduledByPriority ==
  [][ /\ \A u \in (Len(updateObjects) + 1)..Len(updateObjects') :
           updateObjects'[u].scheduledTime =
             now + (CASE updateObjects'[u].priority = "high" -> 0
                      [] updateObjects'[u].priority = "medium" -> 300
                      [] updateObjects'[u].priority = "low" -> 1800)
      /\ \A e \in execLog' \ execLog :
           updateObjects[e.id].priority = "medium"
             => e.start >= updateObjects[e.id].feedbackBatch[1].reviewTimestamp + 300 ]_vars

\* A medium-priority request enqueued at 30 s was executed by the drain of the
\* tick at 330 s, after a high-priority one that was executed within a minute.
C24_Witness ==
  \E e1, e2 \in execLog :
    /\ updateObjects[e1.id].priority = "medium"
    /\ updateObjects[e1.id].feedbackBatch[1].reviewTimestamp = 30
    /\ e1.start = 330
    /\ e1.ok
    /\ updateObjects[e2.id].priority = "high"
    /\ e2.start <= 60

\* C28: in every query produced by identifyUncertain the suggested reviewers
\* hold no reviewer twice, hold the senior analyst if the prediction's riskLevel
\* is high or the amount is above 10000, hold the ML engineer if the prediction
\* has more than two biometric anomalies, and hold two reviewers than whom no
\* other reviewer has a lower workload at the time of the call.
C28_SuggestedReviewers ==
  ret.op = "identifyUncertain" =>
    \A q \in 1..Len(ret.sorted) :
      LET suggested == ret.sorted[q].suggestedReviewers
          i == CHOOSE k \in 1..Len(ret.arg.predictions) :
                 ret.arg.predictions[k].transactionId = ret.sorted[q].transactionId
          prediction == ret.arg.predictions[i]
          transaction == ret.arg.transactions[i]
      IN /\ \A a \in 1..Len(suggested) : \A b \in 1..Len(suggested) :
              suggested[a] = suggested[b] => a = b
         /\ (prediction.riskLevel = "high" \/ transaction.amount > 10000)
              => \E a \in 1..Len(suggested) : suggested[a] = "senior_analyst_001"
         /\ prediction.biometricAnomalies > 2
              => \E a \in 1..Len(suggested) : suggested[a] = "ml_engineer_001"
         /\ \E a \in 1..Len(suggested) : \E b \in 1..Len(suggested) :
              /\ a # b
              /\ MapHas(reviewerWorkload, suggested[a])
              /\ MapHas(reviewerWorkload, suggested[b])
              /\ \A c \in MapKeys(reviewerWorkload) \ {suggested[a], suggested[b]} :
                   /\ MapGet(reviewerWorkload, c) >= MapGet(reviewerWorkload, suggested[a])
                   /\ MapGet(reviewerWorkload, c) >= MapGet(reviewerWorkload, suggested[b])

\* A high-risk transaction of 12000 was queried when two analysts had work and
\* the senior analyst was among the two idlest: the senior analyst is suggested
\* once, next to the third analyst.
C28_Witness ==
  /\ ret.op = "identifyUncertain"
  /\ MapGet(reviewerWorkload, "analyst_001") >= 1
  /\ MapGet(reviewerWorkload, "analyst_002") >= 1
  /\ \E q \in 1..Len(ret.sorted) :
       /\ ret.sorted[q].transactionId = "tx4"
       /\ ret.sorted[q].suggestedReviewers = <<"senior_analyst_001", "ml_engineer_001", "analyst_003">>

\* C29: a successful submitFeedback adds 1 to the workload of the record's
\* reviewer and leaves the other reviewers' workloads as they were; a batch adds
\* 1 for each record it applied; no other step changes a workload, so the sum of
\* the workloads is the number of submitFeedback calls that succeeded.
C29_WorkloadCountsSubmissions ==
  [][ /\ ( /\ calls' = calls + 1
           /\ ret'.op = "submitFeedback"
           /\ ret'.error = "none" )
         => /\ MapHas(reviewerWorkload', ret'.arg.reviewerId)
            /\ MapGet(reviewerWorkload', ret'.arg.reviewerId)
                 = (IF MapHas(reviewerWorkload, ret'.arg.reviewerId)
                      THEN MapGet(reviewerWorkload, ret'.arg.reviewerId) ELSE 0) + 1
            /\ \A k \in MapKeys(reviewerWorkload') \ {ret'.arg.reviewerId} :
                 /\ MapHas(reviewerWorkload, k)
                 /\ MapGet(reviewerWorkload', k) = MapGet(reviewerWorkload, k)
      /\ ( /\ calls' = calls + 1
           /\ ret'.op = "submitBatchFeedback" )
         => LET valid(i) == /\ ret'.arg[i].transactionId # Undefined
                            /\ ret'.arg[i].actualLabel # Undefined
                            /\ ret'.arg[i].reviewerId # Undefined
                accepted == {i \in 1..Len(ret'.arg) : \A j \in 1..i : valid(j)}
            IN /\ Sum([i \in 1..Len(reviewerWorkload') |-> reviewerWorkload'[i].value])
                    = Sum([i \in 1..Len(reviewerWorkload) |-> reviewerWorkload[i].value])
                      + Cardinality(accepted)
               /\ \A k \in MapKeys(reviewerWorkload) :
                    MapGet(reviewerWorkload', k)
                      = MapGet(reviewerWorkload, k)
                        + Cardinality({i \in accepted : ret'.arg[i].reviewerId = k})
      /\ ( calls' = calls
           \/ (ret'.op = "submitFeedback" /\ ret'.error # "none")
           \/ ret'.op = "identifyUncertain" )
         => reviewerWorkload' = reviewerWorkload ]_vars

\* A reviewer first seen in feedback has resubmitted a transaction: one record
\* in the history, two submissions counted.
C29_Witness ==
  /\ ret.op = "submitFeedback"
  /\ ret.error = "none"
  /\ ret.arg.reviewerId = "reviewer_x"
  /\ Len(feedbackHistory) = 1
  /\ MapGet(reviewerWorkload, "reviewer_x") = 1
  /\ Sum([i \in 1..Len(reviewerWorkload) |-> reviewerWorkload[i].value]) = 2

\* C31: every transaction id that a call of identifyUncertain adds to what
\* getPendingReviews lists is among the queries that the call returns.
C31_PendingWereReturned ==
  [][ LET listed(p) == {getPendingReviews(p)[i].transactionId : i \in 1..Len(p)}
      IN (calls' = calls + 1 /\ ret'.op = "identifyUncertain") =>
           listed(pendingReviews') \ listed(pendingReviews)
             \subseteq {ret'.queries[i].transactionId : i \in 1..Len(ret'.queries)} ]_vars

\* C32: a successful execution of an update with a batch of n records raises
\* accuracy by d = min(0.02, 0.001 * n), precision by 0.8 * d and recall by
\* 1.2 * d, each clipped at 0.99, sets f1Score to the harmonic mean of the new
\* precision and recall and increases sampleSize; accuracy, precision and recall
\* never exceed 0.99, whatever executions and drift ticks happened.
C32_ImprovementClipped ==
  [][ LET old == modelPerformance
          new == modelPerformance'
          clipped(p) == p.accuracy <= 9900 /\ p.precision <= 9900 /\ p.recall <= 9900
      IN /\ clipped(old) /\ clipped(new)
         /\ \A e \in execLog' \ execLog :
              e.ok =>
                LET n == Len(updateObjects[e.id].feedbackBatch)
                    d == IF 10 * n < 200 THEN 10 * n ELSE 200
                    upTo99(x) == IF x > 9900 THEN 9900 ELSE x
                IN /\ new.accuracy = upTo99(old.accuracy + d)
                   /\ new.precision = upTo99(old.precision + (8 * d) \div 10)
                   /\ new.recall = upTo99(old.recall + (12 * d) \div 10)
                   /\ new.f1Score = (2 * new.precision * new.recall) \div (new.precision + new.recall)
                   /\ new.sampleSize > old.sampleSize ]_vars

\* Three batches of twenty-five records were executed: the third raised the
\* recall to the clip while accuracy and precision stayed below it.
C32_Witness ==
  /\ Cardinality({e \in execLog : e.ok /\ Len(updateObjects[e.id].feedbackBatch) = 25}) = 3
  /\ modelPerformance.recall = 9900
  /\ modelPerformance.accuracy < 9900
  /\ modelPerformance.sampleSize = 1075

\* C33: the drain of the update queue and the performance drift run on
\* fixed-interval schedules of their own, the drift less often than the drain:
\* the first tick of the drain comes before the first drift step, so the step
\* that takes it leaves the model performance as it was.
C33_DrainAndDriftIndependent ==
  [][ (nextTick = TickInterval /\ nextTick' = nextTick + TickInterval)
        => modelPerformance' = modelPerformance ]_vars

\* C34: every snapshot that getModelPerformance returns is consistent: f1Score
\* is the harmonic mean of precision and recall, falsePositiveRate is
\* 1 - precision and falseNegativeRate is 1 - recall.
C34_PerformanceSnapshotConsistent ==
  LET snapshot == getModelPerformance(modelPerformance)
  IN /\ snapshot.f1Score = (2 * snapshot.precision * snapshot.recall)
                             \div (snapshot.precision + snapshot.recall)
     /\ snapshot.falsePositiveRate = 10000 - snapshot.precision
     /\ snapshot.falseNegativeRate = 10000 - snapshot.recall

\* C37: within one drain the due updates are executed in priority order: an
\* update of higher priority starts before every update of lower priority that
\* the same drain took, whatever the order in which they were enqueued.
C37_DrainInPriorityOrder ==
  LET rank(u) == CASE updateObjects[u].priority = "high" -> 3
                   [] updateObjects[u].priority = "medium" -> 2
                   [] OTHER -> 1
  IN /\ \A a \in execLog : \A b \in execLog :
          (a.drain = b.drain /\ rank(a.id) > rank(b.id)) => a.start < b.start
     /\ \A d \in 1..Len(drains) :
          LET waiting == drains[d].readyUpdates
          IN /\ \A i \in 1..Len(waiting) : \A j \in 1..Len(waiting) :
                  i < j => rank(waiting[i]) >= rank(waiting[j])
             /\ \A e \in execLog : \A i \in 1..Len(waiting) :
                  (e.drain = drains[d].no /\ e.id # waiting[i]) => rank(e.id) >= rank(waiting[i])

\* One drain executed a high-priority update and then a medium-priority one
\* that had been enqueued before it.
C37_Witness ==
  \E a \in execLog : \E b \in execLog :
    /\ a.drain = b.drain
    /\ updateObjects[a.id].priority = "high"
    /\ updateObjects[b.id].priority = "medium"
    /\ b.id < a.id
    /\ a.start < b.start

\* C38: every update request that enters the queue is eventually executed with
\* success and removed from the queue, as long as the tick keeps firing and the
\* executions fail finitely often; and a high-priority request that no drain has
\* taken yet has seen no tick since it was enqueued.
C38_EveryUpdateEventuallyExecuted ==
  /\ \A update \in 1..MaxCalls :
       (Len(updateObjects) >= update /\ InQueue(update))
         ~> (Len(applied) >= update /\ applied[update] >= 1 /\ ~InQueue(update))
  /\ [](\A update \in 1..Len(updateObjects) :
          ( /\ updateObjects[update].priority = "high"
            /\ InQueue(update)
            /\ \A e \in execLog : e.id # update
            /\ \A d \in 1..Len(drains) : \A i \in 1..Len(drains[d].readyUpdates) :
                 drains[d].readyUpdates[i] # update )
            => nextTick - TickInterval <= updateObjects[update].scheduledTime)

\* A medium-priority update failed when it was first executed, was retried ten
\* minutes later with success and is no longer queued.
C38_Witness ==
  \E e1 \in execLog : \E e2 \in execLog :
    /\ e1.id = e2.id
    /\ updateObjects[e1.id].priority = "medium"
    /\ ~e1.ok /\ e2.ok
    /\ e2.start >= e1.end + RetryDelay
    /\ ~InQueue(e1.id)

\* C13: identifyUncertain returns at most 10 queries, each with a combined score
\* 0.4*uncertainty + 0.3*diversity + 0.3*importance above 0.6, in descending
\* order of that score, and no query that was selected but not returned scores
\* higher than a returned one.
C13_TopTenByCombinedScore ==
  LET score(q) == 4 * q.uncertaintyScore + 3 * q.diversityScore + 3 * q.importanceScore
      returned == {ret.queries[i].transactionId : i \in 1..Len(ret.queries)}
  IN /\ Len(ret.queries) <= 10
     /\ \A i \in 1..Len(ret.queries) : score(ret.queries[i]) > 6000
     /\ \A i \in 1..Len(ret.queries) : \A j \in 1..Len(ret.queries) :
          i < j => score(ret.queries[i]) >= score(ret.queries[j])
     /\ \A k \in 1..Len(ret.sorted) :
          ret.sorted[k].transactionId \notin returned =>
            \A i \in 1..Len(ret.queries) : score(ret.sorted[k]) <= score(ret.queries[i])

\* A review round that selected twelve transactions, two of them after one
\* with feedback was skipped, and returned ten with different scores.
C13_Witness ==
  /\ ret.op = "identifyUncertain"
  /\ Len(ret.queries) = 10
  /\ Len(ret.sorted) > 10
  /\ feedbackHistory # <<>>
  /\ ret.queries[1].uncertaintyScore # ret.queries[10].uncertaintyScore

(***************************************************************************)
(* GraphNeuralNetwork.predictFraud and the two scoring routes.             *)
(* Probabilities and confidences are in thousandths.  `hour` is what       *)
(* new Date().getHours() returns while the request is served; `draw` holds *)
(* the values Math.random() returns: the noise of computeFraudScore        *)
(* (Math.random() * 0.2), the confidence of predictFraud, and the baseline *)
(* profile generated for a user first seen during the request.             *)
(***************************************************************************)
computeFraudScore(transaction, hour, noise) ==
    (IF transaction.amount > 1000 THEN 300 ELSE 0)
  + (IF transaction.amount > 5000 THEN 400 ELSE 0)
  + (IF hour < 6 \/ hour > 22 THEN 200 ELSE 0)
  + (IF transaction.merchant.category = "atm" /\ transaction.amount > 500 THEN 300 ELSE 0)
  + noise

riskLevelOf(probability) ==
  IF probability > 700 THEN "high" ELSE IF probability > 400 THEN "medium" ELSE "low"

generateExplanation(transaction, biometric, fraudProb, hour) ==
  LET explanations ==
           (IF transaction.amount > 1000
              THEN <<text("High transaction amount", <<transaction.amount>>)>> ELSE <<>>)
        \o (IF hour < 6 \/ hour > 22 THEN <<text("Unusual time", <<hour>>)>> ELSE <<>>)
        \o (IF transaction.merchant.category = "atm" /\ transaction.amount > 500
              THEN <<text("Large ATM withdrawal", <<transaction.amount>>)>> ELSE <<>>)
        \o (IF biometric.keystrokeDynamics.typingSpeed < 30
              THEN <<text("Unusual typing pattern detected", <<>>)>> ELSE <<>>)
  IN IF fraudProb > 500 /\ explanations = <<>>
       THEN <<text("Anomalous behavioral patterns detected", <<>>)>>
       ELSE explanations

predictFraud(transaction, biometric, hour, draw) ==
  LET fraudScore == computeFraudScore(transaction, hour, draw.noise)
      fraudProbability == Max(0, Min(1000, fraudScore))
  IN [transactionId |-> transaction.id,
      fraudProbability |-> fraudProbability,
      riskLevel |-> riskLevelOf(fraudProbability),
      explanation |-> generateExplanation(transaction, biometric, fraudProbability, hour),
      confidence |-> draw.confidence]

countSeverity(anomalies, severity) ==
  Cardinality({i \in 1..Len(anomalies) : anomalies[i].severity = severity})

adjustProbability(fraudProbability, biometricAnomalies) ==
  Min(1000, fraudProbability + 200 * countSeverity(biometricAnomalies, "high")
                             + 100 * countSeverity(biometricAnomalies, "medium"))

\* Math.round(x * 100) / 100
roundToCents(probability) == ((probability + 5) \div 10) * 10

\* finalRiskLevel: the band of the adjusted probability, before it is rounded.
finalRiskLevel(adjustedProbability) == riskLevelOf(adjustedProbability)

combinedExplanation(fraudPrediction, biometricAnomalies) ==
  fraudPrediction.explanation
  \o [i \in 1..Len(biometricAnomalies) |->
        text("Biometric: " \o biometricAnomalies[i].description.text,
             biometricAnomalies[i].description.args)]

\* initializeModels: the processor is constructed on the first request.
initializeModels(proc, draw, hour) ==
  IF proc.loaded THEN proc
  ELSE [loaded |-> TRUE, userProfiles |-> initializeBaselineProfiles(draw.baseline, hour),
        sessionData |-> <<>>]

\* The verdict fields both routes compute from a prediction and the anomalies.
verdict(transaction, fraudPrediction, biometricAnomalies, adjustedProbability) ==
  [transactionId |-> transaction.id,
   fraudProbability |-> roundToCents(adjustedProbability),
   riskLevel |-> finalRiskLevel(adjustedProbability),
   explanation |-> combinedExplanation(fraudPrediction, biometricAnomalies),
   biometricAnomalies |-> Len(biometricAnomalies),
   confidence |-> fraudPrediction.confidence]

combineInsights(transaction, fraudPrediction, biometricAnomalies) ==
  verdict(transaction, fraudPrediction, biometricAnomalies,
          adjustProbability(fraudPrediction.fraudProbability, biometricAnomalies))

\* `${Date.now() - startTime}ms`: no clock of the model moves while a request
\* is served.
elapsed == text("ms", <<0>>)

response(v, graph) ==
  [status |-> 200, transactionId |-> v.transactionId, fraudProbability |-> v.fraudProbability,
   riskLevel |-> v.riskLevel, explanation |-> v.explanation,
   biometricAnomalies |-> v.biometricAnomalies, graphNodes |-> Len(graph.nodes),
   confidence |-> v.confidence, responseTime |-> elapsed]

\* POST of the single-transaction route after processBiometricData.
respond(processed, body, draw, hour) ==
  [proc |-> processed.proc,
   response |->
     IF processed.threw
       THEN [status |-> 500, error |-> "Internal server error", responseTime |-> elapsed]
       ELSE response(combineInsights(body.transaction,
                                     predictFraud(body.transaction, body.biometric, hour, draw),
                                     processed.anomalies),
                     buildTransactionGraph(body.recentTransactions))]

\* POST of the single-transaction route: the processor after it and the response.
scoreTransaction(proc, body, draw, hour) ==
  IF body.transaction = Missing \/ body.biometric = Missing
    THEN [proc |-> initializeModels(proc, draw, hour),
          response |-> [status |-> 400,
                        error |-> "Missing required transaction or biometric data"]]
    ELSE respond(processBiometricData(initializeModels(proc, draw, hour), body.biometric,
                                      draw.baseline, hour),
                 body, draw, hour)

missingBiometric(transaction) ==
  [transactionId |-> transaction.id, error |-> "Missing biometric data",
   fraudProbability |-> 500, riskLevel |-> "medium"]

processingFailed(transaction) ==
  [transactionId |-> transaction.id, error |-> "Processing failed",
   fraudProbability |-> 500, riskLevel |-> "medium"]

\* The try block of the callback of transactions.map, after processBiometricData.
itemResult(processed, item, draw, hour) ==
  [proc |-> processed.proc,
   result |->
     IF processed.threw
       THEN processingFailed(item.transaction)
       ELSE combineInsights(item.transaction,
                            predictFraud(item.transaction, item.biometric, hour, draw),
                            processed.anomalies)]

\* The callback of transactions.map for one item of a batch.
scoreItem(proc, item, draw, hour) ==
  IF item.biometric = Missing
    THEN [proc |-> proc, result |-> missingBiometric(item.transaction)]
    ELSE itemResult(processBiometricData(proc, item.biometric, draw.baseline, hour),
                    item, draw, hour)

collect(scored, one) == [proc |-> one.proc, results |-> Append(scored.results, one.result)]

\* transactions.map(...): each callback runs processBiometricData before its
\* first await, so the processor is visited in index order.
RECURSIVE scoreItems(_, _, _, _)
scoreItems(scored, items, draw, hour) ==
  IF items = <<>> THEN scored
  ELSE scoreItems(collect(scored, scoreItem(scored.proc, Head(items), draw, hour)),
                  Tail(items), draw, hour)

countRisk(results, riskLevel) ==
  Cardinality({i \in 1..Len(results) : results[i].riskLevel = riskLevel})

batchResponse(scored) ==
  [proc |-> scored.proc,
   response |->
     [status |-> 200,
      results |-> scored.results,
      summary |->
        [totalTransactions |-> Len(scored.results),
         highRisk |-> countRisk(scored.results, "high"),
         mediumRisk |-> countRisk(scored.results, "medium"),
         lowRisk |-> countRisk(scored.results, "low"),
         errors |-> Cardinality({i \in 1..Len(scored.results) :
                                   "error" \in DOMAIN scored.results[i]})],
      performance |-> [totalResponseTime |-> elapsed]]]

\* POST of the batch route, from a processor that is already constructed.
scoreBatch(loaded, body, draw, hour) ==
  IF body.items = <<>>
    THEN [proc |-> loaded,
          response |-> [status |-> 400, error |-> "Missing or invalid transactions array"]]
    ELSE batchResponse(scoreItems([proc |-> loaded, results |-> <<>>], body.items, draw, hour))

served(r, body, draw, hour) ==
  /\ singleProcessor' = r.proc
  /\ scoreLog' = scoreLog \cup {[body |-> body, draw |-> draw, hour |-> hour,
                                 response |-> r.response]}

Score(body, draw, hour) ==
  /\ scoreCalls < MaxScoreCalls
  /\ served(scoreTransaction(singleProcessor, body, draw, hour), body, draw, hour)
  /\ scoreCalls' = scoreCalls + 1
  /\ UNCHANGED <<batchProcessor, lastBatch, inFlight>>
  /\ UNCHANGED <<fsVars, graphVars>>

servedBatch(loaded, r, body, draw, hour) ==
  /\ batchProcessor' = r.proc
  /\ lastBatch' = [pre |-> loaded, body |-> body, draw |-> draw, hour |-> hour,
                   response |-> r.response]

ScoreBatch(body, draw, hour) ==
  /\ scoreCalls < MaxScoreCalls
  /\ servedBatch(initializeModels(batchProcessor, draw, hour),
                 scoreBatch(initializeModels(batchProcessor, draw, hour), body, draw, hour),
                 body, draw, hour)
  /\ scoreCalls' = scoreCalls + 1
  /\ UNCHANGED <<singleProcessor, scoreLog, inFlight>>
  /\ UNCHANGED <<fsVars, graphVars>>

(***************************************************************************)
(* Requests to the scoring routes.                                         *)
(***************************************************************************)
profile(dwell, flight, speed, velocity, acceleration, pattern, orientation, accel, gyro, sessions, confidence) ==
  [userId |-> "",
   keystrokeProfile |-> [avgDwellTime |-> Fix(dwell), avgFlightTime |-> Fix(flight),
                         preferredTypingSpeed |-> Fix(speed)],
   mouseProfile |-> [avgVelocity |-> Fix(velocity), avgAcceleration |-> Fix(acceleration),
                     movementPattern |-> pattern],
   deviceProfile |-> [orientationPreference |-> Fix(orientation),
                      accelerometerBaseline |-> accel, gyroscopeBaseline |-> gyro],
   sessionCount |-> sessions, lastUpdated |-> 0, confidence |-> confidence]

BaselineProfiles ==
  << profile(100, 70, 60, 400, 200, "smooth", 10, <<5000, -5000, 0>>,
             <<100000, -200000, 300000>>, 100, 800),
     profile(90, 80, 50, 450, 160, "jerky", 300, <<0, 0, 0>>, <<0, 0, 0>>, 60, 990) >>

RandomDraws ==
  { [noise |-> 0, confidence |-> 700, baseline |-> BaselineProfiles[1]],
    [noise |-> 103, confidence |-> 850, baseline |-> BaselineProfiles[2]],
    [noise |-> 199, confidence |-> 999, baseline |-> BaselineProfiles[1]] }

Hours == {2, 12}

sample(userId, dwellTimes, typingSpeed, mouseMovements, orientation) ==
  [userId |-> userId, sessionId |-> "session_1", timestamp |-> 0,
   keystrokeDynamics |-> [dwellTimes |-> dwellTimes, flightTimes |-> <<70, 70>>,
                          typingSpeed |-> typingSpeed, pressure |-> <<>>],
   mouseMovements |-> mouseMovements,
   deviceSensors |-> [accelerometer |-> <<50, -50, 0>>, gyroscope |-> <<1000, -2000, 3000>>,
                      orientation |-> orientation]]

steadyMouse == [velocity |-> <<400, 400>>, acceleration |-> <<200, 200>>,
                clickPatterns |-> <<250>>]

usualSample == sample("user_001", <<100, 100>>, 60, steadyMouse, 10)
deviantSample == sample("user_001", <<200, 200>>, 25, steadyMouse, 200)
newUserSample == sample("user_900", <<100, 100>>, 60, steadyMouse, 10)
\* Malformed samples: a sub-object was not sent.
noMouseSample == sample("user_001", <<200, 200>>, 25, Missing, 200)
noKeystrokeSample == [newUserSample EXCEPT !.keystrokeDynamics = Missing]

BiometricSamples ==
  {usualSample, deviantSample, newUserSample, noMouseSample, noKeystrokeSample}

request(amount, hour, category, biometric, recentTransactions) ==
  [transaction |-> txn(amount, hour, category), biometric |-> biometric,
   recentTransactions |-> recentTransactions]

ScoreRequests ==
  { request(6000, 2, "atm", usualSample, <<>>),
    request(1500, 12, "retail", deviantSample, <<txn(100, 12, "food")>>),
    request(100, 12, "food", usualSample, <<txn(100, 12, "food")>>),
    request(100, 12, "food", newUserSample, <<>>),
    request(1500, 12, "retail", noMouseSample, <<>>),
    request(100, 12, "food", Missing, <<>>) }

item(id, amount, category, biometric) ==
  [transaction |-> [txn(amount, 12, category) EXCEPT !.id = id], biometric |-> biometric]

BatchRequests ==
  { [items |-> items, recentTransactions |-> <<txn(100, 12, "food")>>] :
      items \in { <<>>,
                  <<item("b1", 1500, "retail", usualSample),
                    item("b2", 6000, "atm", deviantSample)>>,
                  <<item("b1", 1500, "retail", noMouseSample),
                    item("b2", 6000, "atm", deviantSample)>>,
                  <<item("b1", 100, "food", noKeystrokeSample),
                    item("b2", 1500, "retail", newUserSample)>>,
                  <<item("b1", 100, "food", Missing),
                    item("b2", 1500, "retail", usualSample),
                    item("b3", 6000, "atm", noMouseSample),
                    item("b4", 100, "atm", usualSample)>> } }

NextScore ==
  \/ \E body \in ScoreRequests, draw \in RandomDraws, hour \in Hours : Score(body, draw, hour)
  \/ \E body \in BatchRequests, draw \in RandomDraws, hour \in Hours : ScoreBatch(body, draw, hour)

SpecScore == Init /\ [][NextScore]_vars

(***************************************************************************)
(* The single-transaction route, call by call.  POST runs up to its first  *)
(* await (request.json()), then from the parsed body through               *)
(* processBiometricData, which has no await inside, then through the       *)
(* prediction to the response; other calls run in between.  A call is      *)
(* [body, draw, hour, pc, order, pre, post, anomalies, response]: pre and  *)
(* post are the processor before and after its processBiometricData call,  *)
(* order the position of that call among all of them.                      *)
(***************************************************************************)
Receive(body, draw, hour) ==
  /\ Len(inFlight) < MaxRequests
  /\ singleProcessor' = initializeModels(singleProcessor, draw, hour)
  /\ inFlight' = Append(inFlight,
                        [body |-> body, draw |-> draw, hour |-> hour, pc |-> "reading",
                         order |-> 0, pre |-> notLoaded, post |-> notLoaded,
                         anomalies |-> <<>>, response |-> [status |-> 0]])
  /\ UNCHANGED <<batchProcessor, scoreCalls, scoreLog, lastBatch>>
  /\ UNCHANGED <<fsVars, graphVars>>

processed(i, r) ==
  /\ singleProcessor' = r.proc
  /\ inFlight' = [inFlight EXCEPT
                    ![i].pc = IF r.threw THEN "done" ELSE "processed",
                    ![i].order = 1 + Cardinality({j \in 1..Len(inFlight) : inFlight[j].order > 0}),
                    ![i].pre = singleProcessor,
                    ![i].post = r.proc,
                    ![i].anomalies = r.anomalies,
                    ![i].response = IF r.threw
                                      THEN respond(r, inFlight[i].body, inFlight[i].draw,
                                                   inFlight[i].hour).response
                                      ELSE @]

Process(i) ==
  /\ inFlight[i].pc = "reading"
  /\ IF inFlight[i].body.transaction = Missing \/ inFlight[i].body.biometric = Missing
       THEN /\ inFlight' = [inFlight EXCEPT
                              ![i].pc = "done",
                              ![i].pre = singleProcessor,
                              ![i].post = singleProcessor,
                              ![i].response = scoreTransaction(singleProcessor, inFlight[i].body,
                                                               inFlight[i].draw,
                                                               inFlight[i].hour).response]
            /\ UNCHANGED singleProcessor
       ELSE processed(i, processBiometricData(singleProcessor, inFlight[i].body.biometric,
                                              inFlight[i].draw.baseline, inFlight[i].hour))
  /\ UNCHANGED <<batchProcessor, scoreCalls, scoreLog, lastBatch>>
  /\ UNCHANGED <<fsVars, graphVars>>

Respond(i) ==
  /\ inFlight[i].pc = "processed"
  /\ inFlight' = [inFlight EXCEPT
                    ![i].pc = "done",
                    ![i].response = respond([proc |-> singleProcessor,
                                             anomalies |-> inFlight[i].anomalies,
                                             threw |-> FALSE],
                                            inFlight[i].body, inFlight[i].draw,
                                            inFlight[i].hour).response]
  /\ UNCHANGED <<singleProcessor, batchProcessor, scoreCalls, scoreLog, lastBatch>>
  /\ UNCHANGED <<fsVars, graphVars>>

\* Among the requests: samples at the thresholds of the dwell-time rule for a
\* baseline of 100 ms, and one held at 350 degrees.
FlightRequests ==
  LET draw(n) == CHOOSE d \in RandomDraws : d.noise = n
      flight(biometric, noise) ==
        [body |-> request(1500, 12, "retail", biometric, <<>>), draw |-> draw(noise)]
  IN { flight(usualSample, 0), flight(deviantSample, 0), flight(deviantSample, 103),
       flight(sample("user_001", <<140, 140>>, 60, steadyMouse, 10), 0),
       flight(sample("user_001", <<170, 170>>, 60, steadyMouse, 10), 0),
       flight(sample("user_001", <<100, 100>>, 60, steadyMouse, 350), 0),
       flight(newUserSample, 103), flight(noMouseSample, 0), flight(noKeystrokeSample, 103),
       flight(Missing, 0) }

NextFlight ==
  \/ \E f \in FlightRequests : Receive(f.body, f.draw, 12)
  \/ \E i \in 1..Len(inFlight) : Process(i)
  \/ \E i \in 1..Len(inFlight) : Respond(i)

SpecFlight == Init /\ [][NextFlight]_vars

(***************************************************************************)
(* The scoring route and the FeedbackSystem side by side: a transaction is *)
(* scored, queried for review, given feedback.                             *)
(***************************************************************************)
NextLifecycle ==
  \/ \E body \in ScoreRequests : Score(body, CHOOSE d \in RandomDraws : d.noise = 0, 12)
  \/ \E transactionId \in {"tx", "tx1"} :
        SubmitFeedback(fb(transactionId, "fraud", 800, "analyst_001", now, "manual_review"))
  \/ \E in \in IdentifyInputs : IdentifyUncertain(in)

SpecLifecycle == Init /\ [][NextLifecycle]_vars

(***************************************************************************)
(* Claims about the scoring routes.                                        *)
(***************************************************************************)
\* The verdicts returned so far: the successful responses of the
\* single-transaction route and the results of the last batch.
Verdicts ==
  {e.response : e \in {x \in scoreLog : x.response.status = 200}}
  \cup (IF lastBatch.response.status = 200
          THEN {lastBatch.response.results[i] : i \in 1..Len(lastBatch.response.results)}
          ELSE {})

\* C3: every verdict has a fraudProbability within [0, 1] and a riskLevel that
\* is the band of that reported probability: high above 0.7, medium above 0.4,
\* low otherwise.
C3_RiskLevelMatchesProbability ==
  \A v \in Verdicts :
    /\ v.fraudProbability >= 0 /\ v.fraudProbability <= 1000
    /\ v.riskLevel = (IF v.fraudProbability > 700 THEN "high"
                      ELSE IF v.fraudProbability > 400 THEN "medium" ELSE "low")

\* C9: two scoring requests with the same transaction, biometric sample and
\* recent transactions, and the same random draws, get the same probability,
\* risk level and explanation, whatever the wall clock shows and whatever
\* requests were served before.
C9_ScoringDeterministic ==
  \A a \in scoreLog : \A b \in scoreLog :
    (/\ a.body = b.body
     /\ a.draw = b.draw
     /\ a.response.status = 200
     /\ b.response.status = 200)
    => /\ a.response.fraudProbability = b.response.fraudProbability
       /\ a.response.riskLevel = b.response.riskLevel
       /\ a.response.explanation = b.response.explanation

\* The items of a batch whose processing did not fail.
RECURSIVE withoutFailing(_, _)
withoutFailing(items, results) ==
  IF items = <<>> THEN <<>>
  ELSE (IF "error" \in DOMAIN Head(results) THEN <<>> ELSE <<Head(items)>>)
       \o withoutFailing(Tail(items), Tail(results))

RECURSIVE withoutErrors(_)
withoutErrors(results) ==
  IF results = <<>> THEN <<>>
  ELSE (IF "error" \in DOMAIN Head(results) THEN <<>> ELSE <<Head(results)>>)
       \o withoutErrors(Tail(results))

malformed(biometric) ==
  \/ biometric = Missing
  \/ biometric.keystrokeDynamics = Missing
  \/ biometric.mouseMovements = Missing
  \/ biometric.deviceSensors = Missing

C21_NightAtmWithdrawalExplained ==
  \A e \in scoreLog :
    ( /\ e.response.status = 200
      /\ e.body.transaction.amount = 6000
      /\ e.body.transaction.merchant.category = "atm"
      /\ e.body.transaction.timestamp = 2 )
    => /\ e.response.riskLevel = "high"
       /\ \E k \in 1..Len(e.response.explanation) :
            e.response.explanation[k].text = "High transaction amount"
       /\ \E k \in 1..Len(e.response.explanation) :
            e.response.explanation[k].text = "Unusual time"

\* C36: every response of the scoring routes carries the elapsed processing
\* time: verdicts, batch responses, validation rejections and internal-failure
\* responses alike.
C36_EveryResponseTimed ==
  LET timed(sent) ==
        \/ "responseTime" \in DOMAIN sent
        \/ "performance" \in DOMAIN sent /\ "totalResponseTime" \in DOMAIN sent.performance
  IN /\ \A e \in scoreLog : timed(e.response)
     /\ lastBatch.response.status # 0 => timed(lastBatch.response)

\* C39: the two scoring routes work on one map of biometric profiles: once
\* both have served a request, every user has the same profile, or none, for
\* both, so that a sample processed through one is the baseline of the other.
C39_RoutesShareProfiles ==
  (singleProcessor.loaded /\ batchProcessor.loaded) =>
    \A userId \in MapKeys(singleProcessor.userProfiles) \cup MapKeys(batchProcessor.userProfiles) :
      /\ MapHas(singleProcessor.userProfiles, userId)
      /\ MapHas(batchProcessor.userProfiles, userId)
      /\ MapGet(singleProcessor.userProfiles, userId) = MapGet(batchProcessor.userProfiles, userId)

(***************************************************************************)
(* Claims about processBiometricData under calls in flight.                *)
(***************************************************************************)
\* The calls whose processBiometricData call returned.
Returned == {i \in 1..Len(inFlight) : inFlight[i].order > 0 /\ inFlight[i].response.status # 500}

\* The profile of the sample's user before and after call i processed its sample.
profileBefore(i) ==
  LET userId == inFlight[i].body.biometric.userId
  IN IF MapHas(inFlight[i].pre.userProfiles, userId)
       THEN MapGet(inFlight[i].pre.userProfiles, userId)
       ELSE generateBaselineProfile(userId, inFlight[i].draw.baseline, inFlight[i].hour)

profileAfter(i) == MapGet(inFlight[i].post.userProfiles, inFlight[i].body.biometric.userId)

\* C12: a score request that was answered 400 or 500 because the transaction,
\* the biometric sample or a sub-object of the sample is missing leaves the
\* profiles and the session data of the processor as they were.
C12_RejectedRequestLeavesProfiles ==
  \A i \in 1..Len(inFlight) :
    (inFlight[i].pc = "done" /\ inFlight[i].response.status \in {400, 500})
      => /\ inFlight[i].post.userProfiles = inFlight[i].pre.userProfiles
         /\ inFlight[i].post.sessionData = inFlight[i].pre.sessionData

\* C17: the anomalies of every processBiometricData call are those of the
\* keystroke, mouse and device analyses against the profile as it was before
\* the call.
C17_AnomaliesAgainstProfileBefore ==
  \A i \in Returned :
    inFlight[i].anomalies =
      analyzeKeystrokeDynamics(inFlight[i].body.biometric, profileBefore(i))
      \o analyzeMouseMovements(inFlight[i].body.biometric, profileBefore(i))
      \o analyzeDeviceSensors(inFlight[i].body.biometric, profileBefore(i))

\* A sample with a dwell time twice the baseline was processed: the anomalies
\* name the baseline of before the call, the profile holds the one of after.
C17_Witness ==
  \E i \in Returned :
    /\ inFlight[i].anomalies # <<>>
    /\ inFlight[i].anomalies[1].description.args = <<2000, 1000>>
    /\ profileAfter(i).keystrokeProfile.avgDwellTime = Fix(110)

C19_AverageConverges ==
  \A i \in Returned :
    LET data == inFlight[i].body.biometric
        tracked(p) ==
          <<p.keystrokeProfile.avgDwellTime, p.keystrokeProfile.avgFlightTime,
            p.keystrokeProfile.preferredTypingSpeed, p.mouseProfile.avgVelocity,
            p.mouseProfile.avgAcceleration>>
          \o p.deviceProfile.accelerometerBaseline \o p.deviceProfile.gyroscopeBaseline
        observed ==
          <<Mean(data.keystrokeDynamics.dwellTimes), Mean(data.keystrokeDynamics.flightTimes),
            Fix(data.keystrokeDynamics.typingSpeed), Mean(data.mouseMovements.velocity),
            Mean(data.mouseMovements.acceleration)>>
          \o [k \in 1..3 |-> data.deviceSensors.accelerometer[k] * 100]
          \o [k \in 1..3 |-> data.deviceSensors.gyroscope[k] * 100]
    IN \A k \in 1..11 :
         LET before == Abs(tracked(profileBefore(i))[k] - observed[k])
             after == Abs(tracked(profileAfter(i))[k] - observed[k])
         IN after <= before /\ Abs(10 * after - 9 * before) < 10

\* One sample was processed twice in a row for a user whose dwell time, typing
\* speed, accelerometer and gyroscope baselines all differ from the sample's.
C19_Witness ==
  /\ Returned = {1, 2}
  /\ inFlight[1].body.biometric = inFlight[2].body.biometric
  /\ inFlight[1].order = 1
  /\ inFlight[2].order = 2
  /\ profileBefore(1).keystrokeProfile.avgDwellTime = Fix(90)
  /\ profileAfter(1).keystrokeProfile.avgDwellTime = Fix(101)
  /\ profileAfter(2).keystrokeProfile.avgDwellTime = Fix(1109) \div 10
  /\ profileBefore(1).deviceProfile.accelerometerBaseline = <<0, 0, 0>>
  /\ profileAfter(2).deviceProfile.gyroscopeBaseline[3] = 57000

\* C20: processBiometricData reports a keystroke dwell-time anomaly exactly when
\* |sample mean dwell - avgDwellTime| / avgDwellTime > 0.4, of severity high
\* exactly when the deviation is above 0.7 and medium otherwise; a profile with
\* avgDwellTime 100 and a sample averaging 200 give one of severity high.
C20_DwellTimeRule ==
  \A i \in Returned :
    LET observed == Mean(inFlight[i].body.biometric.keystrokeDynamics.dwellTimes)
        baseline == profileBefore(i).keystrokeProfile.avgDwellTime
        dwell == {k \in 1..Len(inFlight[i].anomalies) :
                    /\ inFlight[i].anomalies[k].type = "keystroke"
                    /\ inFlight[i].anomalies[k].description.text = "Unusual key dwell time"}
    IN /\ Cardinality(dwell) = IF 10 * Abs(observed - baseline) > 4 * baseline THEN 1 ELSE 0
       /\ \A k \in dwell :
            inFlight[i].anomalies[k].severity =
              IF 10 * Abs(observed - baseline) > 7 * baseline THEN "high" ELSE "medium"
       /\ (baseline = Fix(100) /\ observed = Fix(200)) =>
            \E k \in dwell : inFlight[i].anomalies[k].severity = "high"

\* A sample averaging 200 ms met a profile with avgDwellTime 100 and got a
\* dwell-time anomaly of severity high.
C20_Witness ==
  \E i \in Returned :
    /\ profileBefore(i).keystrokeProfile.avgDwellTime = Fix(100)
    /\ Mean(inFlight[i].body.biometric.keystrokeDynamics.dwellTimes) = Fix(200)
    /\ inFlight[i].anomalies[1].type = "keystroke"
    /\ inFlight[i].anomalies[1].severity = "high"
    /\ inFlight[i].anomalies[1].description.text = "Unusual key dwell time"

\* C25: a processBiometricData call never lowers the confidence of the user's
\* profile: it raises it by 0.01 up to 0.95, and the confidence stays within
\* [0, 1], from whatever profile generateBaselineProfile has drawn.
C25_ConfidenceNeverDecreases ==
  \A i \in Returned :
    /\ profileAfter(i).confidence >= profileBefore(i).confidence
    /\ profileAfter(i).confidence \in 0..1000

\* C26: a processBiometricData call that returns sets every numeric baseline
\* field of the user's profile to 0.9*old + 0.1*observed (of the fields kept
\* here: the mean dwell and flight time, the typing speed, the mean velocity and
\* acceleration, the orientation preference, the accelerometer and gyroscope
\* baselines), adds 1 to sessionCount and leaves the other users' profiles as
\* they were.
C26_EveryBaselineFieldAveraged ==
  \A i \in Returned :
    LET data == inFlight[i].body.biometric
        fields(p) ==
          <<p.keystrokeProfile.avgDwellTime, p.keystrokeProfile.avgFlightTime,
            p.keystrokeProfile.preferredTypingSpeed, p.mouseProfile.avgVelocity,
            p.mouseProfile.avgAcceleration, p.deviceProfile.orientationPreference>>
          \o p.deviceProfile.accelerometerBaseline \o p.deviceProfile.gyroscopeBaseline
        observed ==
          <<Mean(data.keystrokeDynamics.dwellTimes), Mean(data.keystrokeDynamics.flightTimes),
            Fix(data.keystrokeDynamics.typingSpeed), Mean(data.mouseMovements.velocity),
            Mean(data.mouseMovements.acceleration), Fix(data.deviceSensors.orientation)>>
          \o [k \in 1..3 |-> data.deviceSensors.accelerometer[k] * 100]
          \o [k \in 1..3 |-> data.deviceSensors.gyroscope[k] * 100]
    IN /\ \A k \in 1..12 :
            fields(profileAfter(i))[k] = (9 * fields(profileBefore(i))[k] + observed[k]) \div 10
       /\ profileAfter(i).sessionCount = profileBefore(i).sessionCount + 1
       /\ \A k \in 1..Len(inFlight[i].post.userProfiles) :
            inFlight[i].post.userProfiles[k].key # data.userId
              => /\ k <= Len(inFlight[i].pre.userProfiles)
                 /\ inFlight[i].pre.userProfiles[k] = inFlight[i].post.userProfiles[k]

\* C27: the orientation deviation is the shortest angular distance between the
\* sample's orientation and the profile's orientation preference, divided by
\* 360, and a low-severity device anomaly is reported exactly when it is above
\* 0.3; a sample at 350 degrees against a preference of 10 degrees gets none.
C27_OrientationDeviationCircular ==
  \A i \in Returned :
    LET difference == Abs(Fix(inFlight[i].body.biometric.deviceSensors.orientation)
                          - profileBefore(i).deviceProfile.orientationPreference)
        shortest == Min(difference, Fix(360) - difference)
        reported == \E k \in 1..Len(inFlight[i].anomalies) :
                      /\ inFlight[i].anomalies[k].type = "device"
                      /\ inFlight[i].anomalies[k].severity = "low"
                      /\ inFlight[i].anomalies[k].description.text
                           = "Device orientation differs from usual preference"
    IN reported <=> 10 * shortest > 3 * Fix(360)

(***************************************************************************)
(* Claims about the life of a transaction id.                              *)
(***************************************************************************)
\* C30: a transaction id gets a feedback record only after it has been scored
\* (the scoring route has answered for it, or identifyUncertain has selected its
\* prediction), and it enters the pending reviews only by a call of
\* identifyUncertain that was given its prediction, and only while it has no
\* feedback record.
C30_LifecycleOfTransactionId ==
  [][ /\ \A id \in MapKeys(feedbackHistory') \ MapKeys(feedbackHistory) :
           \/ \E e \in scoreLog : e.response.status = 200 /\ e.body.transaction.id = id
           \/ MapHas(pendingReviews, id)
      /\ \A id \in MapKeys(pendingReviews') \ MapKeys(pendingReviews) :
           /\ calls' = calls + 1
           /\ ret'.op = "identifyUncertain"
           /\ \E k \in 1..Len(ret'.arg.predictions) : ret'.arg.predictions[k].transactionId = id
           /\ ~MapHas(feedbackHistory, id) ]_vars

====
